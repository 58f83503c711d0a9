-------------------------- MODULE VisionDetectProofs --------------------------
(***************************************************************************)
(* Theorems about /v1/vision/detect and the persistent YOLO worker, for    *)
(* every set of requests and models and every choice of faults.            *)
(*                                                                         *)
(* Three facts carry them.  The vision queue lets one request in, so that  *)
(* one call at a time has to do with the client object and its process.    *)
(* Every line in the worker's pipe was written by a process that was       *)
(* started for the model of the client object, so that a line with the     *)
(* right id was also found by the right model.  And every counter is the   *)
(* number of elements of a finite set of requests or calls.                *)
(***************************************************************************)
EXTENDS VisionDetect, SequenceTheorems, FiniteSetTheorems, TLAPS

USE NoOneAssumption DEF NoOneAssumption

Message ==
  {Ready, Noise} \cup [type : {"response"}, id : Requests, by : Models, ok : BOOLEAN]

InPipe == {stdout[i] : i \in DOMAIN stdout}
Asking == {stdin[i] : i \in DOMAIN stdin} \cup {asked}

(* The handler and the queue. *)

WithNPU == {"guarded", "checking", "running", "calling", "completing", "raising", "releasing"}
Working == {"admitted"} \cup WithNPU
Held == {"live", "late", "succeeding", "failing"}
BeforeCall == {"arriving", "admitted", "guarded", "checking", "running"}

OneWorks ==
  \A r \in Requests :
    /\ pc[r] = "arriving" => visLease[r] = "none"
    /\ pc[r] \in Working => visLease[r] = "live"
    /\ visLease[r] \in Held => visLocked /\ visCurrent = r

NPUIsHeld == \A r \in Requests : pc[r] \in WithNPU <=> npu = r

CalledByOne ==
  \A r \in Requests :
    /\ pc[r] \in BeforeCall => step[r] = "outside"
    /\ step[r] \in Inside => pc[r] = "calling"

(* What came of the calls. *)

Finds == backend \in {"detect", "worker"}
Own(r) == got[r] = <<r, wanted[r]>>

Outcomes ==
  \A r \in Requests :
    /\ got[r] = <<NoOne, NoOne>> \/ Own(r)
    /\ step[r] = "ok" => Own(r)
    /\ pc[r] = "raising" => exc[r] # "none"
    /\ Finds =>
         /\ pc[r] = "completing" => Own(r)
         /\ pc[r] \in {"releasing", "leaving"} /\ exc[r] = "none" => Own(r)
         /\ answer[r][1] = 200 => Own(r)

(* The client object and the process. *)

LockIsInside == \A r \in Requests : lock = r <=> step[r] \in Inside \ {"waiting"}

OneModel ==
  /\ \A r \in Requests : step[r] \in Inside => key = wanted[r]
  /\ key = NoOne => proc = "none" /\ InPipe = {}
  /\ proc = "alive" => serves = key
  /\ \A m \in InPipe : m.type = "response" => m.by = key

NoneLate == \A r \in Requests : step[r] \notin {"late", "notReady"}

\* What was not written is nowhere.
Unwritten ==
  \A r \in Requests :
    step[r] \in (Inside \ {"reading"}) \cup {"outside"} =>
      r \notin Asking /\ \A m \in InPipe : m.type = "response" => m.id # r

\* As long as no call gave up, the process works for the call that waits.
InStep ==
  proc = "alive" /\ NoneLate =>
    /\ mode = "loading" => InPipe = {} /\ \E r \in Requests : step[r] = "loading"
    /\ \/ stdin = <<>> /\ asked = NoOne
       \/ \E r \in Requests :
            /\ step[r] = "reading"
            /\ \/ stdin = <<r>> /\ asked = NoOne
               \/ stdin = <<>> /\ asked = r
            /\ \A m \in InPipe : m.type = "response" => m.id # r

WorkerInv == LockIsInside /\ OneModel /\ Unwritten /\ InStep

IInv ==
  /\ TypeOK /\ stdout \in Seq(Message)
  /\ OneWorks /\ NPUIsHeld /\ CalledByOne /\ Outcomes
  /\ WorkerInv
-----------------------------------------------------------------------------
(* The lines in the pipe. *)

LEMMA PipeTypes ==
  ASSUME stdout \in Seq(Message)
  PROVE  /\ InPipe \subseteq Message
         /\ \A i \in DOMAIN stdout : stdout[i] \in InPipe
         /\ stdout = <<>> <=> InPipe = {}
<1>1. stdout = <<>> => InPipe = {}
  BY DEF InPipe
<1>2. ASSUME InPipe = {} PROVE stdout = <<>>
  <2>1. Len(stdout) = 0
    <3>1. Len(stdout) \in Nat /\ DOMAIN stdout = 1 .. Len(stdout)
      OBVIOUS
    <3>2. 1 \notin DOMAIN stdout
      BY <1>2 DEF InPipe
    <3> QED
      BY <3>1, <3>2
  <2> QED
    BY <2>1, EmptySeq
<1>3. InPipe \subseteq Message
  BY DEF InPipe
<1> QED
  BY <1>1, <1>2, <1>3 DEF InPipe

LEMMA Appended ==
  ASSUME stdout \in Seq(Message), NEW m \in Message, stdout' = Append(stdout, m)
  PROVE  stdout' \in Seq(Message) /\ InPipe' = InPipe \cup {m}
<1>1. /\ stdout' \in Seq(Message) /\ Len(stdout') = Len(stdout) + 1 /\ Len(stdout) \in Nat
      /\ stdout'[Len(stdout) + 1] = m /\ \A i \in 1 .. Len(stdout) : stdout'[i] = stdout[i]
  BY AppendProperties
<1>2. DOMAIN stdout = 1 .. Len(stdout) /\ DOMAIN stdout' = 1 .. Len(stdout) + 1
  BY <1>1
<1> QED
  BY <1>1, <1>2 DEF InPipe

\* Consume leaves the lines after the one it takes.
LEMMA Consumed ==
  ASSUME stdout \in Seq(Message), NEW i \in DOMAIN stdout, NEW lines, Consume(lines, i)
  PROVE  stdout' \in Seq(Message) /\ InPipe' \subseteq InPipe
<1>1. stdout' = SubSeq(stdout, i + 1, Len(stdout)) /\ i \in 1 .. Len(stdout)
      /\ DOMAIN stdout = 1 .. Len(stdout) /\ Len(stdout) \in Nat
  BY DEF Consume
<1>2. stdout' \in Seq(Message)
  BY <1>1, SubSeqProperties
<1>3. \A j \in DOMAIN stdout' : \E k \in DOMAIN stdout : stdout'[j] = stdout[k]
  <2>1. /\ Len(stdout') = IF i + 1 <= Len(stdout) THEN Len(stdout) - (i + 1) + 1 ELSE 0
        /\ \A j \in 1 .. Len(stdout) - (i + 1) + 1 : stdout'[j] = stdout[i + 1 + j - 1]
    BY <1>1, SubSeqProperties
  <2>2. DOMAIN stdout' = 1 .. Len(stdout')
    BY <1>2
  <2> HIDE DEF Consume
  <2> SUFFICES ASSUME NEW j \in DOMAIN stdout' PROVE stdout'[j] = stdout[i + j] /\ i + j \in DOMAIN stdout
    OBVIOUS
  <2>3. j \in Int /\ i \in Int /\ 1 <= j /\ j <= Len(stdout) - i /\ 1 <= i
    BY <1>1, <2>1, <2>2
  <2> QED
    BY <1>1, <2>1, <2>3
<1> QED
  BY <1>2, <1>3 DEF InPipe

LEMMA MessageTypes ==
  /\ Ready \in Message /\ Ready.type = "ready"
  /\ Noise \in Message /\ Noise.type = "log"
  /\ \A m \in Message : m.type = "response" => m.id \in Requests /\ m.by \in Models /\ m.ok \in BOOLEAN
BY DEF Message, Ready, Noise

\* The typing of stdout in YoloTypeOK.
LEMMA PipeTyped ==
  stdout \in Seq(Message) =>
    \A i \in DOMAIN stdout :
      stdout[i] \in {Ready, Noise}
                      \cup [type : {"response"}, id : Requests, by : Models, ok : BOOLEAN]
BY DEF Message
-----------------------------------------------------------------------------
LEMMA InitIInv == Init => IInv
<1> SUFFICES ASSUME Init PROVE IInv
  OBVIOUS
<1>1. YoloTypeOK /\ stdout \in Seq(Message)
  BY DEF Init, YoloInit, YoloTypeOK
<1>2. Vis!TypeOK
  BY DEF Init, Vis!Init, Vis!TypeOK, Vis!LeaseStatus
<1>3. TypeOK
  BY <1>1, <1>2 DEF Init, TypeOK, Places, Exceptions
<1>4. OneWorks /\ NPUIsHeld /\ CalledByOne
  BY DEF Init, YoloInit, Vis!Init, OneWorks, NPUIsHeld, CalledByOne, Working, WithNPU, Held, Inside
<1>5. Outcomes
  BY DEF Init, YoloInit, Outcomes, NoAnswer
<1>6. InPipe = {} /\ Asking = {NoOne}
  BY DEF Init, YoloInit, InPipe, Asking
<1>7. WorkerInv
  BY <1>6 DEF Init, YoloInit, WorkerInv, LockIsInside, OneModel, Unwritten, InStep, Inside
<1> QED
  BY <1>1, <1>3, <1>4, <1>5, <1>7 DEF IInv

\* Only one request is between its admission and its release of the NPU.
LEMMA OnlyOne ==
  ASSUME IInv, NEW r \in Requests, NEW q \in Requests, pc[r] \in Working, pc[q] \in Working
  PROVE  q = r
BY DEF IInv, OneWorks, Held

LEMMA OnlyOneInside ==
  ASSUME IInv, NEW r \in Requests, pc[r] = "running" \/ pc[r] = "calling"
  PROVE  \A q \in Requests \ {r} : step[q] \notin Inside
BY OnlyOne DEF IInv, CalledByOne, Working, WithNPU

\* Steps of the handler leave the client and the process alone.
LEMMA SameWorker ==
  ASSUME IInv, UNCHANGED <<key, users, lock, process, counters, step, given>>
  PROVE  /\ WorkerInv' /\ stdout' \in Seq(Message)
         /\ got' \in [Requests -> (Requests \cup {NoOne}) \X (Models \cup {NoOne})] => YoloTypeOK'
<1>1. UNCHANGED <<key, users, lock, proc, serves, mode, asked, stdin, stdout,
                  requests, failures, restarts, step, backend, wanted>>
  BY DEF process, counters, given
<1>2. InPipe' = InPipe /\ Asking' = Asking /\ NoneLate' = NoneLate
  BY <1>1 DEF InPipe, Asking, NoneLate
<1>3. LockIsInside' /\ OneModel' /\ Unwritten'
  BY <1>1, <1>2 DEF IInv, WorkerInv, LockIsInside, OneModel, Unwritten
<1>4. InStep'
  BY <1>1, <1>2 DEF IInv, WorkerInv, InStep
<1>5. got' \in [Requests -> (Requests \cup {NoOne}) \X (Models \cup {NoOne})] => YoloTypeOK'
  BY <1>1 DEF IInv, TypeOK, YoloTypeOK
<1> QED
  BY <1>1, <1>3, <1>4, <1>5 DEF IInv, WorkerInv
-----------------------------------------------------------------------------
(* Steps of the handler. *)

LEMMA SameQueue ==
  ASSUME IInv, UNCHANGED visVars
  PROVE  Vis!TypeOK'
BY DEF IInv, TypeOK, visVars, Vis!TypeOK

LEMMA QueueTypes ==
  ASSUME Vis!TypeOK, NEW r \in Requests,
         \/ Vis!RejectBusy(r) \/ Vis!Accept(r) \/ Vis!CountTimeout(r) \/ Vis!CommitFinish(r)
         \/ \E how \in {"succeeding", "failing"} : Vis!EnterFinish(r, how)
  PROVE  Vis!TypeOK'
<1>1. CASE Vis!RejectBusy(r)
  BY <1>1 DEF Vis!TypeOK, Vis!RejectBusy, Vis!LeaseStatus
<1>2. CASE Vis!Accept(r)
  BY <1>2 DEF Vis!TypeOK, Vis!Accept, Vis!LeaseStatus
<1>3. CASE Vis!CountTimeout(r)
  BY <1>3 DEF Vis!TypeOK, Vis!CountTimeout, Vis!LeaseStatus
<1>4. CASE Vis!CommitFinish(r)
  <2>1. visCompleted' \in Nat /\ visFailed' \in Nat
    BY <1>4 DEF Vis!TypeOK, Vis!CommitFinish
  <2>2. visLease' \in [Requests -> Vis!LeaseStatus]
    BY <1>4 DEF Vis!TypeOK, Vis!CommitFinish, Vis!LeaseStatus
  <2> QED
    BY <1>4, <2>1, <2>2 DEF Vis!TypeOK, Vis!CommitFinish
<1>5. ASSUME NEW how \in {"succeeding", "failing"}, Vis!EnterFinish(r, how)
      PROVE  Vis!TypeOK'
  BY <1>5 DEF Vis!TypeOK, Vis!EnterFinish, Vis!LeaseStatus, Vis!counters
<1> QED
  BY <1>1, <1>2, <1>3, <1>4, <1>5

LEMMA EnterQueueIInv ==
  ASSUME IInv, NEW r \in Requests, EnterQueue(r)
  PROVE  IInv'
<1>1. /\ UNCHANGED <<yoloVars, npu, given, tally, exc>> /\ pc[r] = "arriving"
      /\ \/ /\ Vis!RejectBusy(r) /\ pc' = [pc EXCEPT ![r] = "answered"]
            /\ answer' = [answer EXCEPT ![r] = <<429, "vision_backend_busy">>]
         \/ Vis!Accept(r) /\ pc' = [pc EXCEPT ![r] = "admitted"] /\ UNCHANGED answer
  BY DEF EnterQueue, At, To
<1>2. WorkerInv' /\ stdout' \in Seq(Message) /\ YoloTypeOK'
  BY <1>1, SameWorker DEF IInv, TypeOK, YoloTypeOK, yoloVars
<1>3. Vis!TypeOK'
  BY <1>1, QueueTypes DEF IInv, TypeOK
<1>4. TypeOK'
  BY <1>1, <1>2, <1>3 DEF IInv, TypeOK, given, tally, Places
<1>5. OneWorks'
  BY <1>1 DEF IInv, TypeOK, OneWorks, Working, WithNPU, Held, Vis!TypeOK, Vis!RejectBusy, Vis!Accept
<1>6. NPUIsHeld' /\ CalledByOne'
  BY <1>1 DEF IInv, TypeOK, NPUIsHeld, CalledByOne, WithNPU, BeforeCall, yoloVars
<1>7. Outcomes'
  BY <1>1 DEF IInv, TypeOK, Outcomes, Finds, Own, yoloVars, given
<1> QED
  BY <1>2, <1>4, <1>5, <1>6, <1>7 DEF IInv

\* The places of a request between its admission and its answer, and the
\* exceptions that may have been raised there.
LEMMA StepIInv ==
  ASSUME IInv, NEW r \in Requests, NEW from, NEW to \in Places, pc[r] = from,
         UNCHANGED <<key, users, lock, process, counters, step, visVars, given>>,
         pc' = [pc EXCEPT ![r] = to],
         exc' \in [Requests -> Exceptions], \A q \in Requests \ {r} : exc'[q] = exc[q],
         total' \in Nat /\ completed' \in Nat /\ failed' \in Nat,
         got' \in [Requests -> (Requests \cup {NoOne}) \X (Models \cup {NoOne})],
         \A q \in Requests : got'[q] = got[q] \/ (got'[q] = <<q, wanted[q]>>),
         DOMAIN answer' = Requests, \A q \in Requests \ {r} : answer'[q] = answer[q],
         answer'[r][1] = 200 /\ Finds => answer[r][1] = 200 \/ Own(r)',
         \/ from = "admitted" /\ to \in {"guarded", "leaving"}
         \/ from \in WithNPU /\ to \in WithNPU
         \/ from \in WithNPU /\ to = "leaving"
         \/ from = "leaving" /\ to = "answered",
         to \in BeforeCall => from \in BeforeCall,
         step[r] \notin Inside,
         npu' = IF to \in WithNPU THEN r ELSE IF from \in WithNPU THEN NoOne ELSE npu,
         from \notin WithNPU /\ to \in WithNPU => npu = NoOne,
         to = "raising" => exc'[r] # "none",
         Finds /\ to = "completing" => Own(r)',
         Finds /\ to \in {"releasing", "leaving"} /\ exc'[r] = "none" => Own(r)'
  PROVE  IInv'
<1>1. WorkerInv' /\ stdout' \in Seq(Message) /\ YoloTypeOK' /\ Vis!TypeOK'
  BY SameWorker, SameQueue
<1>2. UNCHANGED <<step, visLocked, visCurrent, visLease, backend, wanted>>
  BY DEF visVars, given
<1>3. pc \in [Requests -> Places] /\ pc'[r] = to /\ \A q \in Requests \ {r} : pc'[q] = pc[q]
  BY DEF IInv, TypeOK
<1>4. from \in WithNPU <=> npu = r
  BY DEF IInv, NPUIsHeld
<1>5. TypeOK'
  <2>1. npu' \in Requests \cup {NoOne} /\ pc' \in [Requests -> Places]
    BY <1>3 DEF IInv, TypeOK
  <2> QED
    BY <1>1, <1>2, <2>1 DEF IInv, TypeOK
<1>6. OneWorks'
  BY <1>2, <1>3 DEF IInv, OneWorks, Working, WithNPU, BeforeCall
<1>7. NPUIsHeld'
  BY <1>3, <1>4 DEF IInv, NPUIsHeld
<1>8. CalledByOne'
  BY <1>2, <1>3 DEF IInv, CalledByOne
<1>9. Outcomes'
  <2>1. Finds' = Finds /\ wanted' = wanted
    BY <1>2 DEF Finds
  <2>2. ASSUME NEW q \in Requests
        PROVE  (got'[q] = <<NoOne, NoOne>> \/ Own(q)') /\ (Own(q) => Own(q)')
    BY <2>1 DEF IInv, Outcomes, Own
  <2>3. step[r] = "ok" => Own(r)
    BY DEF IInv, Outcomes
  <2>4. ASSUME NEW q \in Requests \ {r}
        PROVE  /\ step'[q] = "ok" => Own(q)'
               /\ pc'[q] = "raising" => exc'[q] # "none"
               /\ Finds =>
                    /\ pc'[q] = "completing" => Own(q)'
                    /\ pc'[q] \in {"releasing", "leaving"} /\ exc'[q] = "none" => Own(q)'
                    /\ answer'[q][1] = 200 => Own(q)'
    BY <1>2, <1>3, <2>2 DEF IInv, Outcomes
  <2>5. /\ step'[r] = "ok" => Own(r)'
        /\ pc'[r] = "raising" => exc'[r] # "none"
        /\ Finds =>
             /\ pc'[r] = "completing" => Own(r)'
             /\ pc'[r] \in {"releasing", "leaving"} /\ exc'[r] = "none" => Own(r)'
             /\ answer'[r][1] = 200 => Own(r)'
    BY <1>2, <1>3, <2>2, <2>3 DEF IInv, Outcomes
  <2> QED
    BY <2>1, <2>2, <2>4, <2>5 DEF Outcomes
<1> QED
  BY <1>1, <1>5, <1>6, <1>7, <1>8, <1>9 DEF IInv

LEMMA AcquireNPUIInv ==
  ASSUME IInv, NEW r \in Requests, AcquireNPU(r)
  PROVE  IInv'
<1>1. /\ UNCHANGED <<key, users, lock, process, counters, step, got, visVars, given,
                     total, completed, failed, answer>>
      /\ pc[r] = "admitted"
      /\ \/ npu = NoOne /\ npu' = r /\ pc' = [pc EXCEPT ![r] = "guarded"] /\ exc' = exc
         \/ /\ exc' = [exc EXCEPT ![r] = "npu busy"] /\ pc' = [pc EXCEPT ![r] = "leaving"]
            /\ npu' = npu
  BY DEF AcquireNPU, At, To, Raise, yoloVars, tally
<1>2. step[r] \notin Inside
  BY <1>1 DEF IInv, CalledByOne
<1>3. /\ total \in Nat /\ completed \in Nat /\ failed \in Nat /\ DOMAIN answer = Requests
      /\ got \in [Requests -> (Requests \cup {NoOne}) \X (Models \cup {NoOne})]
      /\ exc \in [Requests -> Exceptions]
  BY DEF IInv, TypeOK, YoloTypeOK
<1>4. CASE npu = NoOne /\ npu' = r /\ pc' = [pc EXCEPT ![r] = "guarded"] /\ exc' = exc
  <2>1. "guarded" \in Places /\ "guarded" \in WithNPU /\ "guarded" \in BeforeCall
        /\ "admitted" \in BeforeCall /\ "admitted" \notin WithNPU
    BY DEF Places, WithNPU, BeforeCall
  <2> QED
    BY <1>1, <1>2, <1>3, <1>4, <2>1, StepIInv
<1>5. CASE /\ exc' = [exc EXCEPT ![r] = "npu busy"] /\ pc' = [pc EXCEPT ![r] = "leaving"]
           /\ npu' = npu
  <2>1. "leaving" \in Places /\ "leaving" \notin WithNPU /\ "leaving" \notin BeforeCall
        /\ "admitted" \notin WithNPU /\ "npu busy" \in Exceptions
    BY DEF Places, WithNPU, BeforeCall, Exceptions
  <2>2. /\ exc' \in [Requests -> Exceptions] /\ exc'[r] = "npu busy"
        /\ \A q \in Requests \ {r} : exc'[q] = exc[q]
    BY <1>3, <1>5, <2>1
  <2> QED
    BY <1>1, <1>2, <1>3, <1>5, <2>1, <2>2, StepIInv
<1> QED
  BY <1>1, <1>4, <1>5

\* A request goes on under its lease of the NPU, or raises what.
LEMMA WithinIInv ==
  ASSUME IInv, NEW r \in Requests, NEW from \in WithNPU, NEW to \in WithNPU, pc[r] = from,
         UNCHANGED <<key, users, lock, process, counters, step, visVars, given, npu, answer>>,
         pc' = [pc EXCEPT ![r] = to],
         \/ exc' = exc /\ to # "raising"
         \/ /\ \E what \in Exceptions \ {"none"} : exc' = [exc EXCEPT ![r] = what]
            /\ to = "raising",
         total' \in Nat /\ completed' \in Nat /\ failed' \in Nat,
         UNCHANGED got \/ got' = [got EXCEPT ![r] = <<r, wanted[r]>>],
         to \in BeforeCall => from \in BeforeCall,
         step[r] \notin Inside,
         Finds /\ to = "completing" => Own(r)',
         Finds /\ to = "releasing" /\ exc[r] = "none" => Own(r)'
  PROVE  IInv'
<1>1. /\ DOMAIN answer = Requests /\ exc \in [Requests -> Exceptions] /\ wanted \in [Requests -> Models]
      /\ got \in [Requests -> (Requests \cup {NoOne}) \X (Models \cup {NoOne})]
  BY DEF IInv, TypeOK, YoloTypeOK
<1>2. got' \in [Requests -> (Requests \cup {NoOne}) \X (Models \cup {NoOne})]
  BY <1>1
<1>3. \A q \in Requests : got'[q] = got[q] \/ got'[q] = <<q, wanted[q]>>
  BY <1>1
<1>4. /\ exc' \in [Requests -> Exceptions] /\ \A q \in Requests \ {r} : exc'[q] = exc[q]
      /\ to = "raising" => exc'[r] # "none"
      /\ to # "raising" => exc' = exc
  BY <1>1
<1>5. npu = r
  BY DEF IInv, NPUIsHeld
<1>6. to \in Places /\ to # "leaving" /\ "raising" # "releasing"
  BY DEF Places, WithNPU
<1> QED
  BY <1>1, <1>2, <1>3, <1>4, <1>5, <1>6, StepIInv

LEMMA InsideNames ==
  /\ {"guarded", "checking", "running", "calling", "completing", "raising", "releasing"} = WithNPU
  /\ BeforeCall = {"arriving", "admitted", "guarded", "checking", "running"}
  /\ {"npu busy", "model missing", "file missing", "bad image", "probe error", "timeout", "other"}
       = Exceptions \ {"none"}
BY DEF WithNPU, BeforeCall, Exceptions

LEMMA StartRequestIInv ==
  ASSUME IInv, NEW r \in Requests, StartRequest(r)
  PROVE  IInv'
<1>1. /\ UNCHANGED <<key, users, lock, process, counters, step, visVars, given, npu, answer>>
      /\ pc[r] = "guarded" /\ pc' = [pc EXCEPT ![r] = "checking"] /\ exc' = exc /\ got' = got
      /\ total' = total + 1 /\ completed' = completed /\ failed' = failed
  BY DEF StartRequest, At, To, yoloVars
<1>2. step[r] \notin Inside /\ total' \in Nat /\ completed' \in Nat /\ failed' \in Nat
  BY <1>1 DEF IInv, CalledByOne, TypeOK
<1> QED
  BY <1>1, <1>2, InsideNames, WithinIInv

LEMMA CheckingIInv ==
  ASSUME IInv, NEW r \in Requests, FakeDetect(r) \/ CheckFiles(r)
  PROVE  IInv'
<1>1. PICK to \in {"raising", "completing", "running"} :
        /\ UNCHANGED <<key, users, lock, process, counters, step, got, visVars, given, npu, answer,
                       total, completed, failed>>
        /\ pc[r] = "checking" /\ pc' = [pc EXCEPT ![r] = to]
        /\ \/ exc' = exc /\ to # "raising"
           \/ /\ \E what \in Exceptions \ {"none"} : exc' = [exc EXCEPT ![r] = what]
              /\ to = "raising"
        /\ to = "completing" => backend = "fake"
  <2>1. CASE FakeDetect(r)
    BY <2>1, InsideNames DEF FakeDetect, ProbeImage, At, To, Raise, yoloVars, tally
  <2>2. CASE CheckFiles(r)
    BY <2>2, InsideNames DEF CheckFiles, ProbeImage, At, To, Raise, yoloVars, tally
  <2> QED
    BY <2>1, <2>2
<1>2. step[r] \notin Inside /\ total' \in Nat /\ completed' \in Nat /\ failed' \in Nat
  BY <1>1 DEF IInv, CalledByOne, TypeOK
<1>3. Finds => to # "completing"
  BY <1>1 DEF Finds
<1> QED
  BY <1>1, <1>2, <1>3, InsideNames, WithinIInv

LEMMA RunProbeIInv ==
  ASSUME IInv, NEW r \in Requests, RunProbe(r)
  PROVE  IInv'
<1>1. /\ UNCHANGED <<key, users, lock, process, counters, step, visVars, given, npu, answer,
                     total, completed, failed>>
      /\ pc[r] = "running" /\ backend \in Probes
      /\ ProbeFinds(r) \/ ProbeFails(r)
  BY DEF RunProbe, At, tally
<1>2. step[r] \notin Inside /\ total' \in Nat /\ completed' \in Nat /\ failed' \in Nat
  BY <1>1 DEF IInv, CalledByOne, TypeOK
<1>3. CASE ProbeFinds(r)
  <2>1. /\ pc' = [pc EXCEPT ![r] = "completing"] /\ exc' = exc
        /\ got' = IF backend = "detect" THEN [got EXCEPT ![r] = <<r, wanted[r]>>] ELSE got
    BY <1>3 DEF ProbeFinds, To
  <2>2. Finds => Own(r)'
    <3>1. DOMAIN got = Requests /\ wanted' = wanted
      BY <1>1 DEF IInv, TypeOK, YoloTypeOK, given
    <3>2. Finds => backend = "detect"
      BY <1>1 DEF Finds, Probes
    <3> QED
      BY <2>1, <3>1, <3>2 DEF Own
  <2> QED
    BY <1>1, <1>2, <2>1, <2>2, InsideNames, WithinIInv
<1>4. CASE ProbeFails(r)
  <2>1. /\ pc' = [pc EXCEPT ![r] = "raising"] /\ got' = got
        /\ \E what \in Exceptions \ {"none"} : exc' = [exc EXCEPT ![r] = what]
    BY <1>4, InsideNames DEF ProbeFails, Raise, To
  <2> QED
    BY <1>1, <1>2, <2>1, InsideNames, WithinIInv
<1> QED
  BY <1>1, <1>3, <1>4

LEMMA WorkerReturnsIInv ==
  ASSUME IInv, NEW r \in Requests, WorkerReturns(r)
  PROVE  IInv'
<1>1. /\ UNCHANGED <<key, users, lock, process, counters, step, got, visVars, given, npu, answer,
                     total, completed, failed>>
      /\ pc[r] = "calling"
      /\ \/ step[r] = "ok" /\ pc' = [pc EXCEPT ![r] = "completing"] /\ exc' = exc
         \/ /\ step[r] \in {"refused", "lost", "died", "late", "notReady", "notStarted"}
            /\ pc' = [pc EXCEPT ![r] = "raising"]
            /\ \E what \in Exceptions \ {"none"} : exc' = [exc EXCEPT ![r] = what]
  BY InsideNames DEF WorkerReturns, At, To, Raise, yoloVars, tally
<1>2. step[r] \notin Inside /\ total' \in Nat /\ completed' \in Nat /\ failed' \in Nat
  BY <1>1 DEF IInv, TypeOK, Inside
<1>3. step[r] = "ok" => Own(r)'
  BY <1>1 DEF IInv, Outcomes, Own, given
<1> QED
  BY <1>1, <1>2, <1>3, InsideNames, WithinIInv

LEMMA CountEndIInv ==
  ASSUME IInv, NEW r \in Requests, CountEnd(r)
  PROVE  IInv'
<1>1. /\ UNCHANGED <<key, users, lock, process, counters, step, got, visVars, given, npu, answer>>
      /\ total' = total /\ exc' = exc /\ pc' = [pc EXCEPT ![r] = "releasing"]
      /\ \/ pc[r] = "completing" /\ completed' = completed + 1 /\ failed' = failed
         \/ pc[r] = "raising" /\ failed' = failed + 1 /\ completed' = completed
  BY DEF CountEnd, At, To, yoloVars
<1>2. step[r] \notin Inside /\ total' \in Nat /\ completed' \in Nat /\ failed' \in Nat
  BY <1>1 DEF IInv, CalledByOne, TypeOK
<1>3. Finds /\ exc[r] = "none" => Own(r)'
  BY <1>1 DEF IInv, Outcomes, Own, given
<1> QED
  BY <1>1, <1>2, <1>3, InsideNames, WithinIInv

LEMMA ReleaseNPUIInv ==
  ASSUME IInv, NEW r \in Requests, ReleaseNPU(r)
  PROVE  IInv'
<1>1. /\ UNCHANGED <<key, users, lock, process, counters, step, got, visVars, given, answer,
                     total, completed, failed, exc>>
      /\ pc[r] = "releasing" /\ pc' = [pc EXCEPT ![r] = "leaving"] /\ npu' = NoOne
  BY DEF ReleaseNPU, At, To, yoloVars, tally
<1>2. /\ step[r] \notin Inside /\ total \in Nat /\ completed \in Nat /\ failed \in Nat
      /\ DOMAIN answer = Requests /\ exc \in [Requests -> Exceptions]
      /\ got \in [Requests -> (Requests \cup {NoOne}) \X (Models \cup {NoOne})]
  BY <1>1 DEF IInv, CalledByOne, TypeOK, YoloTypeOK
<1>3. Finds /\ exc[r] = "none" => Own(r)'
  BY <1>1 DEF IInv, Outcomes, Own, given
<1>4. "leaving" \in Places /\ "leaving" \notin WithNPU /\ "leaving" \notin BeforeCall
  BY DEF Places, WithNPU, BeforeCall
<1> QED
  BY <1>1, <1>2, <1>3, <1>4, InsideNames, StepIInv

LEMMA GoodAnswer ==
  ASSUME NEW what \in Exceptions, what # "none"
  PROVE  AnswerTo(what)[1] # 200
<1>1. CASE what = "npu busy"
  <2>1. AnswerTo(what) = <<429, "npu_resource_busy">>
    BY <1>1 DEF AnswerTo
  <2> QED
    BY <2>1
<1>2. CASE what = "model missing"
  <2>1. AnswerTo(what) = <<404, "vision_model_file_not_found">>
    BY <1>2 DEF AnswerTo
  <2> QED
    BY <2>1
<1>3. CASE what = "file missing"
  <2>1. AnswerTo(what) = <<404, "image_not_found">>
    BY <1>3 DEF AnswerTo
  <2> QED
    BY <2>1
<1>4. CASE what = "bad image"
  <2>1. AnswerTo(what) = <<400, "invalid_image_file">>
    BY <1>4 DEF AnswerTo
  <2> QED
    BY <2>1
<1>5. CASE what = "probe error"
  <2>1. AnswerTo(what) = <<500, "rknn_yolo_runtime_error">>
    BY <1>5 DEF AnswerTo
  <2> QED
    BY <2>1
<1>6. CASE what = "timeout"
  <2>1. AnswerTo(what) = <<504, "vision_backend_timeout">>
    BY <1>6 DEF AnswerTo
  <2> QED
    BY <2>1
<1>7. CASE what = "other"
  <2>1. AnswerTo(what) = <<500, "none">>
    BY <1>7 DEF AnswerTo
  <2> QED
    BY <2>1
<1> QED
  BY <1>1, <1>2, <1>3, <1>4, <1>5, <1>6, <1>7 DEF Exceptions

LEMMA AnswerIInv ==
  ASSUME IInv, NEW r \in Requests, Answer(r)
  PROVE  IInv'
<1>1. /\ UNCHANGED <<key, users, lock, process, counters, step, got, visVars, given, npu,
                     total, completed, failed, exc>>
      /\ pc[r] = "leaving" /\ pc' = [pc EXCEPT ![r] = "answered"]
      /\ answer' = [answer EXCEPT ![r] = AnswerTo(exc[r])]
  BY DEF Answer, At, To, yoloVars, tally
<1>2. /\ step[r] \notin Inside /\ total \in Nat /\ completed \in Nat /\ failed \in Nat
      /\ DOMAIN answer = Requests /\ exc \in [Requests -> Exceptions]
      /\ got \in [Requests -> (Requests \cup {NoOne}) \X (Models \cup {NoOne})]
  BY <1>1 DEF IInv, CalledByOne, TypeOK, YoloTypeOK
<1>3. /\ DOMAIN answer' = Requests /\ \A q \in Requests \ {r} : answer'[q] = answer[q]
      /\ answer'[r] = AnswerTo(exc[r])
  BY <1>1, <1>2
<1>4. AnswerTo(exc[r])[1] = 200 => exc[r] = "none"
  BY <1>2, GoodAnswer
<1>5. Finds /\ exc[r] = "none" => Own(r)'
  BY <1>1 DEF IInv, Outcomes, Own, given
<1>6. "answered" \in Places /\ "answered" \notin WithNPU /\ "answered" \notin BeforeCall
      /\ "leaving" \notin WithNPU
  BY DEF Places, WithNPU, BeforeCall
<1> QED
  BY <1>1, <1>2, <1>3, <1>4, <1>5, <1>6, StepIInv

\* The end of run_nowait frees the queue for the next request.
LEMMA LeaveQueueIInv ==
  ASSUME IInv, NEW r \in Requests, LeaveQueue(r)
  PROVE  IInv'
<1>1. /\ UNCHANGED <<key, users, lock, process, counters, step, got, npu, given,
                     total, completed, failed, pc, exc, answer>>
      /\ pc[r] = "leaving"
      /\ \/ Vis!CountTimeout(r) \/ Vis!CommitFinish(r)
         \/ \E how \in {"succeeding", "failing"} : Vis!EnterFinish(r, how)
  BY DEF LeaveQueue, At, yoloVars, tally
<1>2. WorkerInv' /\ stdout' \in Seq(Message) /\ YoloTypeOK'
  BY <1>1, SameWorker DEF IInv, TypeOK, YoloTypeOK
<1>3. Vis!TypeOK'
  BY <1>1, QueueTypes DEF IInv, TypeOK
<1>4. TypeOK'
  BY <1>1, <1>2, <1>3 DEF IInv, TypeOK, given
<1>5. /\ \A q \in Requests \ {r} : visLease'[q] = visLease[q]
      /\ \/ visLocked' = visLocked /\ visCurrent' = visCurrent /\ visLease[r] \in Held
         \/ /\ visLease[r] \in Held /\ visLocked' = FALSE /\ visCurrent' = NoOne
            /\ visLease'[r] \notin Held
  BY <1>1 DEF IInv, TypeOK, Vis!TypeOK, Vis!CountTimeout, Vis!CommitFinish, Vis!EnterFinish, Held
<1>6. OneWorks'
  <2>1. \A q \in Requests \ {r} : visLease[q] \notin Held
    BY <1>5 DEF IInv, OneWorks
  <2> QED
    BY <1>1, <1>5, <2>1 DEF IInv, OneWorks, Working, WithNPU, Held
<1>7. NPUIsHeld' /\ CalledByOne'
  BY <1>1 DEF IInv, NPUIsHeld, CalledByOne
<1>8. Outcomes'
  BY <1>1 DEF IInv, Outcomes, Finds, Own, given
<1> QED
  BY <1>2, <1>4, <1>6, <1>7, <1>8 DEF IInv
-----------------------------------------------------------------------------
(* Steps of the client and the process. *)

\* What such a step must show: it leaves the handlers alone, or ends the place
\* before the call, and touches the call of one request.
LEMMA WorkerStepIInv ==
  ASSUME IInv, UNCHANGED <<visVars, npu, given, tally, exc, answer>>,
         YoloTypeOK' /\ stdout' \in Seq(Message) /\ WorkerInv',
         \A q \in Requests :
           \/ step'[q] = step[q] /\ got'[q] = got[q] /\ pc'[q] = pc[q]
           \/ /\ pc[q] \in {"running", "calling"} /\ pc'[q] = "calling"
              /\ got'[q] = got[q] \/ got'[q] = <<q, wanted[q]>>
              /\ step'[q] = "ok" => got'[q] = <<q, wanted[q]>>,
         pc' \in [Requests -> Places]
  PROVE  IInv'
<1>1. UNCHANGED <<visLocked, visCurrent, visLease, npu, backend, wanted, exc, answer,
                  total, completed, failed>>
  BY DEF visVars, given, tally
<1>2. TypeOK'
  BY <1>1, SameQueue DEF IInv, TypeOK
<1>3. OneWorks' /\ NPUIsHeld'
  BY <1>1 DEF IInv, OneWorks, NPUIsHeld, Working, WithNPU
<1>4. CalledByOne'
  BY DEF IInv, CalledByOne, BeforeCall
<1>5. Outcomes'
  BY <1>1 DEF IInv, Outcomes, Own, Finds
<1> QED
  BY <1>2, <1>3, <1>4, <1>5 DEF IInv

LEMMA CallWorkerIInv ==
  ASSUME IInv, NEW r \in Requests, CallWorker(r)
  PROVE  IInv'
<1>1. /\ UNCHANGED <<visVars, npu, given, tally, exc, answer>>
      /\ pc[r] = "running" /\ pc' = [pc EXCEPT ![r] = "calling"]
      /\ step[r] = "outside" /\ step' = [step EXCEPT ![r] = "waiting"] /\ key' = wanted[r]
      /\ got' = got
      /\ \/ /\ key = wanted[r] /\ users' = users \cup {r}
            /\ UNCHANGED <<lock, process, counters>>
         \/ /\ key # wanted[r] /\ users' = {r} /\ lock' = NoOne
            /\ requests' = 0 /\ failures' = 0 /\ restarts' = 0
            /\ IF key = NoOne THEN UNCHANGED process ELSE Stop
  BY DEF CallWorker, GetWorker, At, To, Goto
<1>2. /\ wanted[r] \in Models /\ pc \in [Requests -> Places] /\ YoloTypeOK
      /\ stdout \in Seq(Message)
      /\ step \in [Requests -> Inside \cup Ended \cup {"outside"}]
  BY DEF IInv, TypeOK, YoloTypeOK
<1>3. /\ \A q \in Requests \ {r} : step[q] \notin Inside /\ step'[q] = step[q]
      /\ step'[r] = "waiting" /\ step[r] \notin Inside
  BY <1>1, <1>2, OnlyOneInside DEF Inside
<1>4. lock = NoOne
  BY <1>2, <1>3 DEF IInv, WorkerInv, LockIsInside, YoloTypeOK
<1>5. LockIsInside' /\ lock' = NoOne
  BY <1>1, <1>3, <1>4 DEF LockIsInside
<1>6. wanted[r] # NoOne /\ wanted' = wanted
  BY <1>1, <1>2 DEF given
<1>7. "waiting" \in Inside /\ "outside" \notin Inside
  BY DEF Inside
<1>8. step' \in [Requests -> Inside \cup Ended \cup {"outside"}]
  BY <1>1, <1>2, <1>7
<1>9. /\ NoneLate' => NoneLate
      /\ \A q \in Requests : step'[q] # "loading" /\ step'[q] # "reading"
                          /\ step[q] # "loading" /\ step[q] # "reading"
  BY <1>1, <1>3 DEF NoneLate, Inside
<1>10. \A q \in Requests :
         step'[q] \in (Inside \ {"reading"}) \cup {"outside"} =>
           step[q] \in (Inside \ {"reading"}) \cup {"outside"}
  BY <1>1, <1>3
<1>11. YoloTypeOK' /\ stdout' \in Seq(Message) /\ OneModel' /\ Unwritten' /\ InStep'
  <2>1. CASE UNCHANGED process /\ (key = wanted[r] \/ key = NoOne)
    <3>1. InPipe' = InPipe /\ Asking' = Asking
      BY <2>1 DEF InPipe, Asking, process
    <3>2. UNCHANGED <<proc, serves, mode, asked, stdin, stdout>>
      BY <2>1 DEF process
    <3>3. OneModel'
      BY <1>1, <1>3, <1>6, <2>1, <3>1, <3>2 DEF IInv, WorkerInv, OneModel
    <3>4. Unwritten'
      BY <1>10, <3>1, <3>2 DEF IInv, WorkerInv, Unwritten
    <3>5. InStep'
      BY <1>9, <3>1, <3>2 DEF IInv, WorkerInv, InStep
    <3>6. requests' \in Nat /\ failures' \in Nat /\ restarts' \in Nat
      BY <1>1, <1>2 DEF YoloTypeOK, counters
    <3>7. YoloTypeOK'
      BY <1>1, <1>2, <1>5, <1>8, <3>2, <3>6 DEF YoloTypeOK
    <3> QED
      BY <1>2, <3>2, <3>3, <3>4, <3>5, <3>7
  <2>2. CASE Stop /\ requests' = 0 /\ failures' = 0 /\ restarts' = 0
    <3>1. /\ proc' = "none" /\ mode' = "idle" /\ asked' = NoOne
          /\ stdin' = <<>> /\ stdout' = <<>> /\ serves' = serves
      BY <2>2 DEF Stop
    <3>2. InPipe' = {} /\ Asking' = {NoOne}
      BY <3>1 DEF InPipe, Asking
    <3>3. OneModel'
      BY <1>1, <1>3, <1>6, <3>1, <3>2 DEF OneModel
    <3>4. Unwritten' /\ InStep'
      BY <3>1, <3>2 DEF Unwritten, InStep
    <3>5. YoloTypeOK'
      BY <1>1, <1>2, <1>5, <1>8, <2>2, <3>1 DEF YoloTypeOK
    <3> QED
      BY <3>1, <3>3, <3>4, <3>5
  <2> QED
    BY <1>1, <2>1, <2>2
<1>12. pc' \in [Requests -> Places] /\ pc'[r] = "calling"
       /\ \A q \in Requests \ {r} : pc'[q] = pc[q]
  BY <1>1, <1>2 DEF Places
<1> QED
  BY <1>1, <1>3, <1>5, <1>11, <1>12, WorkerStepIInv DEF WorkerInv

\* The steps of the process.
LEMMA ProcessIInv ==
  ASSUME IInv, WorkerProcess
  PROVE  IInv'
<1>1. /\ UNCHANGED <<visVars, npu, given, tally, pc, exc, answer>>
      /\ UNCHANGED <<key, users, lock, requests, failures, restarts, step, got, serves>>
      /\ proc = "alive" /\ Process
  BY DEF WorkerProcess, Process, Load, TakeRequest, WriteResponse, Exit, untouched, counters
<1>2. /\ YoloTypeOK /\ stdout \in Seq(Message) /\ LockIsInside /\ OneModel /\ Unwritten /\ InStep
      /\ pc \in [Requests -> Places]
  BY DEF IInv, TypeOK, WorkerInv
<1>3. serves = key /\ key \in Models /\ wanted' = wanted
  BY <1>1, <1>2 DEF OneModel, YoloTypeOK, given
<1>4. LockIsInside' /\ (NoneLate' <=> NoneLate)
  BY <1>1, <1>2 DEF LockIsInside, NoneLate
<1>5. SUFFICES YoloTypeOK' /\ stdout' \in Seq(Message) /\ OneModel' /\ Unwritten' /\ InStep'
  <2>1. pc' = pc /\ step' = step /\ got' = got
    BY <1>1
  <2> QED
    BY <1>1, <1>2, <1>4, <2>1, WorkerStepIInv DEF WorkerInv
<1>6. CASE Load
  <2>1. /\ mode = "loading" /\ mode' \in {"idle", "exiting"} /\ stdout' = Append(stdout, Ready)
        /\ proc' = proc /\ asked' = asked /\ stdin' = stdin
    BY <1>6 DEF Load
  <2>2. stdout' \in Seq(Message) /\ InPipe' = InPipe \cup {Ready} /\ Asking' = Asking
    BY <1>2, <2>1, Appended, MessageTypes DEF Asking
  <2>3. asked = NoOne
    BY <1>2, <2>1 DEF YoloTypeOK
  <2>4. YoloTypeOK'
    BY <1>1, <1>2, <2>1, <2>2, <2>3 DEF YoloTypeOK, Message
  <2>5. \A m \in InPipe' : m.type = "response" => m \in InPipe
    BY <2>2, MessageTypes
  <2>6. OneModel' /\ Unwritten'
    BY <1>1, <1>2, <1>3, <2>1, <2>2, <2>5 DEF OneModel, Unwritten
  <2>7. InStep'
    BY <1>1, <1>2, <1>4, <2>1, <2>5 DEF InStep
  <2> QED
    BY <2>2, <2>4, <2>6, <2>7
<1>7. CASE TakeRequest
  <2>1. /\ mode = "idle" /\ stdin # <<>> /\ mode' = "computing" /\ asked' = Head(stdin)
        /\ stdin' = Tail(stdin) /\ proc' = proc /\ stdout' = stdout
    BY <1>7 DEF TakeRequest
  <2>2. /\ stdin \in Seq(Requests) /\ stdin' \in Seq(Requests) /\ Head(stdin) \in Requests
        /\ asked = NoOne /\ Len(stdin') = Len(stdin) - 1 /\ Len(stdin) \in Nat \ {0}
        /\ \A i \in 1 .. Len(stdin') : stdin'[i] = stdin[i + 1]
        /\ Head(stdin) = stdin[1]
    <3>1. stdin \in Seq(Requests) /\ asked = NoOne
      BY <1>2, <2>1 DEF YoloTypeOK
    <3>2. Len(stdin) \in Nat \ {0}
      BY <2>1, <3>1, EmptySeq
    <3> QED
      BY <2>1, <3>1, <3>2, HeadTailProperties
  <2>3. InPipe' = InPipe
    BY <2>1 DEF InPipe
  <2>4. Asking' \subseteq Asking
    <3>1. DOMAIN stdin = 1 .. Len(stdin) /\ DOMAIN stdin' = 1 .. Len(stdin')
      BY <2>2
    <3>2. \A i \in DOMAIN stdin' : i + 1 \in DOMAIN stdin /\ stdin'[i] = stdin[i + 1]
      BY <2>2, <3>1
    <3>3. 1 \in DOMAIN stdin /\ asked' = stdin[1]
      BY <2>1, <2>2, <3>1
    <3> QED
      BY <3>2, <3>3 DEF Asking
  <2>5. YoloTypeOK'
    BY <1>1, <1>2, <2>1, <2>2 DEF YoloTypeOK
  <2>6. OneModel' /\ Unwritten'
    BY <1>1, <1>2, <1>3, <2>1, <2>3, <2>4 DEF OneModel, Unwritten
  <2>7. ASSUME NEW r \in Requests, stdin = <<r>> PROVE stdin' = <<>> /\ asked' = r
    BY <2>1, <2>7
  <2>8. InStep'
    BY <1>1, <1>2, <1>4, <2>1, <2>3, <2>7 DEF InStep
  <2> QED
    BY <1>2, <2>1, <2>5, <2>6, <2>8
<1>8. CASE WriteResponse
  <2>1. /\ mode = "computing" /\ mode' = "idle" /\ asked' = NoOne /\ proc' = proc /\ stdin' = stdin
        /\ \E m \in {Response(asked, TRUE), Response(asked, FALSE), Noise} : stdout' = Append(stdout, m)
    BY <1>8 DEF WriteResponse
  <2>2. asked \in Requests
    BY <1>2, <2>1 DEF YoloTypeOK
  <2>3. PICK m : /\ m \in Message /\ stdout' = Append(stdout, m)
                 /\ m.type = "response" => m.by = key /\ m.id = asked
    <3>1. ASSUME NEW ok \in BOOLEAN
          PROVE  /\ Response(asked, ok) \in Message
                 /\ Response(asked, ok).by = key /\ Response(asked, ok).id = asked
      BY <1>3, <2>2 DEF Response, Message
    <3> QED
      BY <2>1, <3>1, MessageTypes
  <2>4. stdout' \in Seq(Message) /\ InPipe' = InPipe \cup {m}
    BY <1>2, <2>3, Appended
  <2>5. Asking' \subseteq Asking \cup {NoOne} /\ asked \in Asking
    BY <2>1 DEF Asking
  <2>6. YoloTypeOK'
    BY <1>1, <1>2, <2>1, <2>4 DEF YoloTypeOK, Message
  <2>7. OneModel'
    BY <1>1, <1>2, <1>3, <2>1, <2>3, <2>4 DEF OneModel
  <2>8. Unwritten'
    BY <1>1, <1>2, <2>3, <2>4, <2>5 DEF Unwritten
  <2>9. InStep'
    <3>1. NoneLate /\ proc = "alive" => stdin = <<>>
      BY <1>2, <2>2 DEF InStep
    <3> QED
      BY <1>1, <1>4, <2>1, <3>1 DEF InStep
  <2> QED
    BY <2>4, <2>6, <2>7, <2>8, <2>9
<1>9. CASE Exit
  <2>1. /\ proc' = "dead" /\ mode' = "idle" /\ asked' = NoOne /\ stdin' = stdin /\ stdout' = stdout
    BY <1>9 DEF Exit
  <2>2. InPipe' = InPipe /\ Asking' \subseteq Asking \cup {NoOne}
    BY <2>1 DEF InPipe, Asking
  <2>3. YoloTypeOK'
    BY <1>1, <1>2, <2>1 DEF YoloTypeOK
  <2>4. OneModel' /\ Unwritten' /\ InStep'
    BY <1>1, <1>2, <1>3, <2>1, <2>2 DEF OneModel, Unwritten, InStep
  <2> QED
    BY <1>2, <2>1, <2>3, <2>4
<1> QED
  BY <1>1, <1>6, <1>7, <1>8, <1>9 DEF Process

\* A call goes on with its lock, or ends and gives it back.
LEMMA CallGoesOn ==
  ASSUME IInv, NEW r \in Requests, pc[r] = "calling", step[r] \in Inside,
         NEW to \in (Inside \ {"waiting"}) \cup Ended, Goto(r, to),
         lock' = IF to \in Inside THEN r ELSE NoOne,
         UNCHANGED <<visVars, npu, given, tally, pc, exc, answer, key, users>>
  PROVE  /\ LockIsInside'
         /\ step' \in [Requests -> Inside \cup Ended \cup {"outside"}]
         /\ step'[r] = to /\ \A q \in Requests \ {r} : step'[q] = step[q] /\ step[q] \notin Inside
         /\ \A q \in Requests : step'[q] \in Inside => key' = wanted'[q]
         /\ NoneLate' => NoneLate
<1>1. /\ step' = [step EXCEPT ![r] = to]
      /\ step \in [Requests -> Inside \cup Ended \cup {"outside"}]
  BY DEF IInv, TypeOK, YoloTypeOK, Goto
<1>2. \A q \in Requests \ {r} : step[q] \notin Inside
  BY OnlyOneInside
<1>3. step'[r] = to /\ \A q \in Requests \ {r} : step'[q] = step[q]
  BY <1>1
<1>4. LockIsInside'
  BY <1>2, <1>3 DEF LockIsInside, Inside, Ended
<1>5. key = wanted[r] /\ key' = key /\ wanted' = wanted
  BY DEF IInv, WorkerInv, OneModel, given
<1>6. NoneLate' => NoneLate
  <2>1. step[r] \notin {"late", "notReady"}
    BY DEF Inside
  <2> QED
    BY <1>3, <2>1 DEF NoneLate
<1> QED
  BY <1>1, <1>2, <1>3, <1>4, <1>5, <1>6

LEMMA CallStepIInv ==
  ASSUME IInv, NEW r \in Requests, pc[r] = "calling",
         UNCHANGED <<visVars, npu, given, tally, pc, exc, answer>>,
         YoloTypeOK' /\ stdout' \in Seq(Message),
         LockIsInside' /\ OneModel' /\ Unwritten' /\ InStep',
         \A q \in Requests \ {r} : step'[q] = step[q] /\ got'[q] = got[q],
         got'[r] = got[r] \/ got'[r] = <<r, wanted[r]>>,
         step'[r] = "ok" => got'[r] = <<r, wanted[r]>>
  PROVE  IInv'
<1>1. pc' = pc /\ pc \in [Requests -> Places]
  BY DEF IInv, TypeOK
<1> QED
  BY <1>1, WorkerStepIInv DEF WorkerInv

\* As long as a call has neither written its request nor waits for the
\* process to load, no call gave up and the process lives, it is at rest.
LEMMA AtRest ==
  ASSUME IInv, NEW r \in Requests, step[r] \in {"waiting", "starting", "writing"},
         \A q \in Requests \ {r} : step[q] \notin Inside,
         proc = "alive", NoneLate
  PROVE  mode # "loading" /\ stdin = <<>> /\ asked = NoOne
BY DEF IInv, WorkerInv, InStep, Inside

\* What was not written before a step that goes on was not written after it.
LEMMA StillUnwritten ==
  ASSUME IInv, NEW r \in Requests, NEW to,
         step'[r] = to /\ \A q \in Requests \ {r} : step'[q] = step[q],
         to \in {"reading"} \cup Ended
           \/ step[r] \in (Inside \ {"reading"}) \cup {"outside"},
         InPipe' \subseteq InPipe,
         \A q \in Requests :
           q \in Asking' => q \in Asking \/ (q = r /\ to = "reading")
  PROVE  Unwritten'
<1>1. Ended \cap (Inside \cup {"outside"}) = {}
  BY DEF Ended, Inside
<1> QED
  BY <1>1 DEF IInv, WorkerInv, Unwritten

LEMMA EnterIInv ==
  ASSUME IInv, NEW r \in Requests, InWorker(r), Enter(r)
  PROVE  IInv'
<1>1. /\ UNCHANGED <<visVars, npu, given, tally, pc, exc, answer>> /\ pc[r] = "calling"
      /\ UNCHANGED <<key, users, proc, serves, mode, asked, stdin, stdout,
                     requests, failures, restarts, got>>
      /\ step[r] = "waiting" /\ lock' = r /\ Goto(r, "starting")
  BY DEF InWorker, Enter, At, process, counters
<1>2. step[r] \in Inside /\ "starting" \in Inside \ {"waiting"}
  BY <1>1 DEF Inside
<1>3. /\ LockIsInside' /\ (NoneLate' => NoneLate)
      /\ step' \in [Requests -> Inside \cup Ended \cup {"outside"}]
      /\ step'[r] = "starting" /\ \A q \in Requests \ {r} : step'[q] = step[q] /\ step[q] \notin Inside
      /\ \A q \in Requests : step'[q] \in Inside => key' = wanted'[q]
  BY <1>1, <1>2, CallGoesOn
<1>4. InPipe' = InPipe /\ Asking' = Asking
  BY <1>1 DEF InPipe, Asking
<1>5. Unwritten'
  BY <1>1, <1>2, <1>3, <1>4, StillUnwritten
<1>6. OneModel'
  BY <1>1, <1>3, <1>4 DEF IInv, WorkerInv, OneModel
<1>7. InStep'
  BY <1>1, <1>3, AtRest DEF InStep
<1>8. YoloTypeOK' /\ stdout' \in Seq(Message)
  BY <1>1, <1>3 DEF IInv, TypeOK, YoloTypeOK
<1> QED
  BY <1>1, <1>3, <1>5, <1>6, <1>7, <1>8, CallStepIInv

LEMMA StartIInv ==
  ASSUME IInv, NEW r \in Requests, InWorker(r), Start(r)
  PROVE  IInv'
<1>1. /\ UNCHANGED <<visVars, npu, given, tally, pc, exc, answer>> /\ pc[r] = "calling"
      /\ UNCHANGED <<key, users, lock, requests, failures, restarts, got>>
      /\ step[r] = "starting"
      /\ \/ proc = "alive" /\ Goto(r, "writing")
            /\ UNCHANGED <<proc, serves, mode, asked, stdin, stdout>>
         \/ /\ proc # "alive" /\ Goto(r, "loading")
            /\ proc' = "alive" /\ serves' = key /\ mode' = "loading" /\ asked' = NoOne
            /\ stdin' = <<>> /\ stdout' = <<>>
  BY DEF InWorker, Start, At, process, counters
<1>2. /\ step[r] \in Inside /\ step[r] \in (Inside \ {"reading"}) /\ lock = r
      /\ "writing" \in Inside \ {"waiting"} /\ "loading" \in Inside \ {"waiting"}
  BY <1>1 DEF IInv, WorkerInv, LockIsInside, Inside
<1>3. key = wanted[r] /\ key \in Models /\ YoloTypeOK
  BY <1>2 DEF IInv, WorkerInv, OneModel, TypeOK
<1>4. CASE /\ proc = "alive" /\ Goto(r, "writing")
           /\ UNCHANGED <<proc, serves, mode, asked, stdin, stdout>>
  <2>1. /\ LockIsInside' /\ (NoneLate' => NoneLate)
        /\ step' \in [Requests -> Inside \cup Ended \cup {"outside"}]
        /\ step'[r] = "writing" /\ \A q \in Requests \ {r} : step'[q] = step[q] /\ step[q] \notin Inside
        /\ \A q \in Requests : step'[q] \in Inside => key' = wanted'[q]
    BY <1>1, <1>2, <1>4, CallGoesOn
  <2>2. InPipe' = InPipe /\ Asking' = Asking
    BY <1>4 DEF InPipe, Asking
  <2>3. Unwritten'
    BY <1>2, <2>1, <2>2, StillUnwritten
  <2>4. OneModel'
    BY <1>1, <1>4, <2>1, <2>2 DEF IInv, WorkerInv, OneModel
  <2>5. InStep'
    BY <1>1, <1>4, <2>1, AtRest DEF InStep
  <2>6. YoloTypeOK' /\ stdout' \in Seq(Message)
    BY <1>1, <1>4, <2>1 DEF IInv, TypeOK, YoloTypeOK
  <2> QED
    BY <1>1, <2>1, <2>3, <2>4, <2>5, <2>6, CallStepIInv
<1>5. CASE /\ proc # "alive" /\ Goto(r, "loading")
           /\ proc' = "alive" /\ serves' = key /\ mode' = "loading" /\ asked' = NoOne
           /\ stdin' = <<>> /\ stdout' = <<>>
  <2>1. /\ LockIsInside' /\ (NoneLate' => NoneLate)
        /\ step' \in [Requests -> Inside \cup Ended \cup {"outside"}]
        /\ step'[r] = "loading" /\ \A q \in Requests \ {r} : step'[q] = step[q] /\ step[q] \notin Inside
        /\ \A q \in Requests : step'[q] \in Inside => key' = wanted'[q]
    BY <1>1, <1>2, <1>5, CallGoesOn
  <2>2. InPipe' = {} /\ Asking' = {NoOne}
    BY <1>5 DEF InPipe, Asking
  <2>3. Unwritten'
    BY <2>2 DEF Unwritten
  <2>4. OneModel'
    BY <1>1, <1>3, <1>5, <2>1, <2>2 DEF OneModel
  <2>5. InStep'
    BY <1>5, <2>1, <2>2 DEF InStep
  <2>6. YoloTypeOK' /\ stdout' \in Seq(Message)
    BY <1>1, <1>3, <1>5, <2>1 DEF YoloTypeOK
  <2> QED
    BY <1>1, <2>1, <2>3, <2>4, <2>5, <2>6, CallStepIInv
<1> QED
  BY <1>1, <1>4, <1>5

\* A call fails: the process is not alive, or is left running by a call that
\* gave up.
LEMMA FailsIInv ==
  ASSUME IInv, NEW r \in Requests, NEW how \in Ended, NEW counted \in Nat,
         InWorker(r), step[r] \in Inside, Fails(r, how, counted), how # "ok",
         proc # "alive" \/ how \in {"late", "notReady"}
  PROVE  IInv'
<1>1. /\ UNCHANGED <<visVars, npu, given, tally, pc, exc, answer>> /\ pc[r] = "calling"
      /\ UNCHANGED <<key, users, proc, serves, mode, asked, stdin, stdout, requests, restarts, got>>
      /\ Goto(r, how) /\ lock' = NoOne /\ failures' = failures + counted
  BY DEF InWorker, Fails, At, process
<1>2. how \notin Inside /\ how \in (Inside \ {"waiting"}) \cup Ended
  BY DEF Inside, Ended
<1>3. /\ LockIsInside'
      /\ step' \in [Requests -> Inside \cup Ended \cup {"outside"}]
      /\ step'[r] = how /\ \A q \in Requests \ {r} : step'[q] = step[q] /\ step[q] \notin Inside
      /\ \A q \in Requests : step'[q] \in Inside => key' = wanted'[q]
  BY <1>1, <1>2, CallGoesOn
<1>4. InPipe' = InPipe /\ Asking' = Asking
  BY <1>1 DEF InPipe, Asking
<1>5. Unwritten'
  BY <1>3, <1>4, StillUnwritten
<1>6. OneModel'
  BY <1>1, <1>3, <1>4 DEF IInv, WorkerInv, OneModel
<1>7. InStep'
  BY <1>1, <1>3 DEF InStep, NoneLate
<1>8. YoloTypeOK' /\ stdout' \in Seq(Message)
  BY <1>1, <1>3 DEF IInv, TypeOK, YoloTypeOK
<1> QED
  BY <1>1, <1>3, <1>5, <1>6, <1>7, <1>8, CallStepIInv

LEMMA ReadReadyIInv ==
  ASSUME IInv, NEW r \in Requests, InWorker(r), ReadReady(r)
  PROVE  IInv'
<1>1. PICK i \in DOMAIN stdout : Consume({j \in DOMAIN stdout : stdout[j].type = "ready"}, i)
  BY DEF ReadReady
<1>2. /\ UNCHANGED <<visVars, npu, given, tally, pc, exc, answer>> /\ pc[r] = "calling"
      /\ UNCHANGED <<key, users, lock, proc, serves, mode, asked, stdin, requests, failures, got>>
      /\ step[r] = "loading" /\ proc = "alive" /\ restarts' = restarts + 1 /\ Goto(r, "writing")
  BY DEF InWorker, ReadReady, At
<1>3. stdout \in Seq(Message) /\ YoloTypeOK /\ InStep
  BY DEF IInv, TypeOK, WorkerInv
<1>4. stdout' \in Seq(Message) /\ InPipe' \subseteq InPipe /\ InPipe # {}
  BY <1>1, <1>3, Consumed, PipeTypes
<1>5. /\ step[r] \in Inside /\ step[r] \in (Inside \ {"reading"}) /\ lock = r
      /\ "writing" \in Inside \ {"waiting"}
  BY <1>2 DEF IInv, WorkerInv, LockIsInside, Inside
<1>6. /\ LockIsInside' /\ (NoneLate' => NoneLate)
      /\ step' \in [Requests -> Inside \cup Ended \cup {"outside"}]
      /\ step'[r] = "writing" /\ \A q \in Requests \ {r} : step'[q] = step[q] /\ step[q] \notin Inside
      /\ \A q \in Requests : step'[q] \in Inside => key' = wanted'[q]
  BY <1>2, <1>5, CallGoesOn
<1>7. Asking' = Asking
  BY <1>2 DEF Asking
<1>8. Unwritten'
  BY <1>4, <1>5, <1>6, <1>7, StillUnwritten
<1>9. OneModel'
  BY <1>2, <1>4, <1>6 DEF IInv, WorkerInv, OneModel
<1>10. InStep'
  <2>1. NoneLate => mode # "loading" /\ stdin = <<>> /\ asked = NoOne
    BY <1>2, <1>3, <1>4, <1>6 DEF InStep, Inside
  <2> QED
    BY <1>2, <1>6, <2>1 DEF InStep
<1>11. YoloTypeOK'
  <2>1. restarts' \in Nat
    BY <1>2, <1>3 DEF YoloTypeOK
  <2> QED
    BY <1>2, <1>3, <1>4, <1>6, <2>1 DEF YoloTypeOK, Message
<1> QED
  BY <1>2, <1>4, <1>6, <1>8, <1>9, <1>10, <1>11, CallStepIInv

LEMMA WriteRequestIInv ==
  ASSUME IInv, NEW r \in Requests, InWorker(r), WriteRequest(r)
  PROVE  IInv'
<1>1. /\ UNCHANGED <<visVars, npu, given, tally, pc, exc, answer>> /\ pc[r] = "calling"
      /\ UNCHANGED <<key, users, lock, proc, serves, mode, asked, stdout,
                     requests, failures, restarts, got>>
      /\ step[r] = "writing" /\ Goto(r, "reading")
      /\ stdin' = IF proc = "alive" THEN Append(stdin, r) ELSE stdin
  BY DEF InWorker, WriteRequest, At, counters
<1>2. stdout \in Seq(Message) /\ stdin \in Seq(Requests) /\ YoloTypeOK
  BY DEF IInv, TypeOK, YoloTypeOK
<1>3. /\ step[r] \in Inside /\ step[r] \in Inside \ {"reading"} /\ lock = r
      /\ "reading" \in Inside \ {"waiting"}
  BY <1>1 DEF IInv, WorkerInv, LockIsInside, Inside
<1>4. /\ LockIsInside' /\ (NoneLate' => NoneLate)
      /\ step' \in [Requests -> Inside \cup Ended \cup {"outside"}]
      /\ step'[r] = "reading" /\ \A q \in Requests \ {r} : step'[q] = step[q] /\ step[q] \notin Inside
      /\ \A q \in Requests : step'[q] \in Inside => key' = wanted'[q]
  BY <1>1, <1>3, CallGoesOn
<1>5. /\ stdin' \in Seq(Requests)
      /\ \A i \in DOMAIN stdin' : stdin'[i] = r \/ (i \in DOMAIN stdin /\ stdin'[i] = stdin[i])
  <2>1. CASE proc = "alive"
    <3>1. /\ stdin' = Append(stdin, r) /\ stdin' \in Seq(Requests) /\ Len(stdin) \in Nat
          /\ Len(stdin') = Len(stdin) + 1 /\ stdin'[Len(stdin) + 1] = r
          /\ \A i \in 1 .. Len(stdin) : stdin'[i] = stdin[i]
      BY <1>1, <1>2, <2>1, AppendProperties
    <3>2. DOMAIN stdin = 1 .. Len(stdin) /\ DOMAIN stdin' = 1 .. Len(stdin) + 1
      BY <1>2, <3>1
    <3>3. ASSUME NEW i \in DOMAIN stdin'
          PROVE  i = Len(stdin) + 1 \/ i \in 1 .. Len(stdin)
      BY <3>1, <3>2
    <3>4. ASSUME NEW i \in DOMAIN stdin'
          PROVE  stdin'[i] = r \/ (i \in DOMAIN stdin /\ stdin'[i] = stdin[i])
      BY <3>1, <3>2, <3>3
    <3> QED
      BY <3>1, <3>4
  <2>2. CASE proc # "alive"
    BY <1>1, <1>2, <2>2
  <2> QED
    BY <2>1, <2>2
<1>6. InPipe' = InPipe
  BY <1>1 DEF InPipe
<1>7. \A q \in Requests : q \in Asking' => q \in Asking \/ q = r
  BY <1>1, <1>5 DEF Asking
<1>8. Unwritten'
  BY <1>4, <1>6, <1>7, StillUnwritten
<1>9. OneModel'
  BY <1>1, <1>4, <1>6 DEF IInv, WorkerInv, OneModel
<1>10. InStep'
  <2> SUFFICES ASSUME proc = "alive", NoneLate PROVE InStep'
    BY <1>1, <1>4 DEF InStep
  <2>1. mode # "loading" /\ stdin = <<>> /\ asked = NoOne
    BY <1>1, <1>4, AtRest
  <2>2. stdin' = <<r>>
    BY <1>1, <2>1
  <2>3. \A m \in InPipe : m.type = "response" => m.id # r
    BY <1>3 DEF IInv, WorkerInv, Unwritten
  <2> QED
    BY <1>1, <1>4, <1>6, <2>1, <2>2, <2>3 DEF InStep
<1>11. YoloTypeOK' /\ stdout' \in Seq(Message)
  BY <1>1, <1>2, <1>4, <1>5 DEF YoloTypeOK
<1> QED
  BY <1>1, <1>4, <1>8, <1>9, <1>10, <1>11, CallStepIInv

\* The answer has the id of the call and was written for its model.
LEMMA ReadResponseIInv ==
  ASSUME IInv, NEW r \in Requests, InWorker(r), ReadResponse(r)
  PROVE  IInv'
<1>1. PICK i \in DOMAIN stdout :
        /\ Consume({j \in DOMAIN stdout : Mine(r, stdout[j])}, i)
        /\ \/ /\ Goto(r, "ok")
              /\ requests' = requests + 1
              /\ got' = [got EXCEPT ![r] = <<stdout[i].id, stdout[i].by>>]
              /\ UNCHANGED failures
           \/ /\ Goto(r, "refused")
              /\ failures' = failures + 2
              /\ UNCHANGED <<requests, got>>
  BY DEF ReadResponse
<1>2. /\ UNCHANGED <<visVars, npu, given, tally, pc, exc, answer>> /\ pc[r] = "calling"
      /\ UNCHANGED <<key, users, proc, serves, mode, asked, stdin, restarts>>
      /\ step[r] = "reading" /\ proc = "alive" /\ lock' = NoOne
  BY DEF InWorker, ReadResponse, At
<1>3. stdout \in Seq(Message) /\ YoloTypeOK /\ InStep /\ OneModel
  BY DEF IInv, TypeOK, WorkerInv
<1>4. stdout' \in Seq(Message) /\ InPipe' \subseteq InPipe /\ stdout[i] \in InPipe
  BY <1>1, <1>3, Consumed, PipeTypes
<1>5. stdout[i].type = "response" /\ stdout[i].id = r /\ stdout[i].by = key /\ key = wanted[r]
  <2>1. stdout[i].type = "response" /\ stdout[i].id = r
    BY <1>1 DEF Consume, Mine
  <2>2. "reading" \in Inside
    BY DEF Inside
  <2> QED
    BY <1>2, <1>3, <1>4, <2>1, <2>2 DEF OneModel
<1>6. PICK how \in {"ok", "refused"} :
        /\ Goto(r, how) /\ requests' \in Nat /\ failures' \in Nat
        /\ how = "ok" => got' = [got EXCEPT ![r] = <<r, wanted[r]>>]
        /\ how = "refused" => got' = got
  <2>1. requests \in Nat /\ failures \in Nat
    BY <1>3 DEF YoloTypeOK
  <2>2. CASE Goto(r, "ok") /\ requests' = requests + 1 /\ UNCHANGED failures
             /\ got' = [got EXCEPT ![r] = <<stdout[i].id, stdout[i].by>>]
    <3>1. got' = [got EXCEPT ![r] = <<r, wanted[r]>>] /\ Goto(r, "ok")
      BY <1>5, <2>2
    <3>2. requests' \in Nat /\ failures' \in Nat
      BY <2>1, <2>2
    <3> QED
      BY <3>1, <3>2
  <2>3. CASE Goto(r, "refused") /\ failures' = failures + 2 /\ UNCHANGED <<requests, got>>
    <3>1. requests' = requests /\ got' = got /\ Goto(r, "refused")
      BY <2>3
    <3>2. requests' \in Nat /\ failures' \in Nat
      BY <2>1, <2>3
    <3> QED
      BY <3>1, <3>2
  <2> QED
    BY <1>1, <2>2, <2>3
<1>7. /\ step[r] \in Inside /\ how \notin Inside /\ how \in (Inside \ {"waiting"}) \cup Ended
      /\ how \in Ended
  BY <1>2 DEF Inside, Ended
<1>8. /\ LockIsInside' /\ (NoneLate' => NoneLate)
      /\ step' \in [Requests -> Inside \cup Ended \cup {"outside"}]
      /\ step'[r] = how /\ \A q \in Requests \ {r} : step'[q] = step[q] /\ step[q] \notin Inside
      /\ \A q \in Requests : step'[q] \in Inside => key' = wanted'[q]
  BY <1>2, <1>6, <1>7, CallGoesOn
<1>9. wanted \in [Requests -> Models]
      /\ got \in [Requests -> (Requests \cup {NoOne}) \X (Models \cup {NoOne})]
  BY DEF IInv, TypeOK, YoloTypeOK
<1>10. /\ got' \in [Requests -> (Requests \cup {NoOne}) \X (Models \cup {NoOne})]
       /\ \A q \in Requests \ {r} : got'[q] = got[q]
       /\ how = "ok" => got'[r] = <<r, wanted[r]>>
       /\ how = "refused" => got'[r] = got[r]
  BY <1>6, <1>9
<1>11. Asking' = Asking
  BY <1>2 DEF Asking
<1>12. Unwritten'
  BY <1>4, <1>7, <1>8, <1>11, StillUnwritten
<1>13. OneModel'
  BY <1>2, <1>3, <1>4, <1>8 DEF OneModel
<1>14. InStep'
  <2>1. \A q \in Requests : step[q] = "reading" => q = r
    BY <1>8 DEF Inside
  <2>2. NoneLate => mode # "loading" /\ stdin = <<>> /\ asked = NoOne
    BY <1>2, <1>3, <1>4, <1>5, <2>1 DEF InStep
  <2> QED
    BY <1>2, <1>8, <2>2 DEF InStep
<1>15. YoloTypeOK'
  BY <1>2, <1>3, <1>4, <1>6, <1>8, <1>10 DEF YoloTypeOK, Message
<1> QED
  BY <1>2, <1>4, <1>6, <1>8, <1>10, <1>12, <1>13, <1>14, <1>15, CallStepIInv

LEMMA InWorkerIInv ==
  ASSUME IInv, NEW r \in Requests, InWorker(r)
  PROVE  IInv'
<1>1. Detect(r)
  BY DEF InWorker
<1>2. "starting" \in Inside /\ "loading" \in Inside /\ "reading" \in Inside
      /\ {"notStarted", "died", "notReady", "lost", "late"} \subseteq Ended \ {"ok"}
      /\ 0 \in Nat /\ 1 \in Nat
  BY DEF Inside, Ended
<1>3. CASE NotStarted(r)
  BY <1>2, <1>3, FailsIInv DEF NotStarted
<1>4. CASE StartEnds(r)
  BY <1>2, <1>4, FailsIInv DEF StartEnds
<1>5. CASE ReadEnds(r)
  BY <1>2, <1>5, FailsIInv DEF ReadEnds
<1> QED
  BY <1>1, <1>3, <1>4, <1>5, EnterIInv, StartIInv, ReadReadyIInv, WriteRequestIInv,
     ReadResponseIInv DEF Detect

LEMMA NextIInv == IInv /\ [Next]_vars => IInv'
<1> SUFFICES ASSUME IInv, [Next]_vars PROVE IInv'
  OBVIOUS
<1>1. CASE UNCHANGED vars
  <2>1. /\ UNCHANGED <<visVars, npu, given, tally, exc, answer>>
        /\ UNCHANGED <<key, users, lock, process, counters, step, given>>
        /\ pc' = pc /\ step' = step /\ got' = got
    BY <1>1 DEF vars, yoloVars
  <2>2. YoloTypeOK' /\ stdout' \in Seq(Message) /\ WorkerInv'
    BY <2>1, SameWorker DEF IInv, TypeOK, YoloTypeOK
  <2>3. pc' \in [Requests -> Places]
    BY <2>1 DEF IInv, TypeOK
  <2> QED
    BY <2>1, <2>2, <2>3, WorkerStepIInv
<1>2. CASE WorkerProcess
  BY <1>2, ProcessIInv
<1>3. ASSUME NEW r \in Requests, Thread(r) PROVE IInv'
  BY <1>3, EnterQueueIInv, AcquireNPUIInv, StartRequestIInv, CheckingIInv, RunProbeIInv,
     CallWorkerIInv, InWorkerIInv, WorkerReturnsIInv, CountEndIInv, ReleaseNPUIInv,
     LeaveQueueIInv, AnswerIInv DEF Thread
<1> QED
  BY <1>1, <1>2, <1>3 DEF Next

LEMMA VisionDetectInvariant == Spec => []IInv
BY InitIInv, NextIInv, PTL DEF Spec
-----------------------------------------------------------------------------
(* Type correctness of the requests, the queue, the client and its process. *)
THEOREM VisionDetectTypeOK == Spec => []TypeOK
BY VisionDetectInvariant, PTL DEF IInv

(***************************************************************************)
(* An answer with detections has those of its request's own image, found   *)
(* by the model the request names, for any number of requests and models   *)
(* and however many calls gave up and left their answers in the pipe.      *)
(***************************************************************************)
THEOREM VisionDetectDetectionsAreOwn == Spec => []DetectionsAreOwn
<1>1. IInv => DetectionsAreOwn
  BY DEF IInv, Outcomes, Own, Finds, DetectionsAreOwn
<1> QED
  BY <1>1, VisionDetectInvariant, PTL

(***************************************************************************)
(* The worker loads or computes without a lease of the NPU only after some *)
(* call gave up waiting for it: the timeouts of the client are the only    *)
(* way in which the NPU guard is passed by.                                *)
(***************************************************************************)
THEOREM VisionDetectStrayWorkIsLate == Spec => []StrayWorkIsLate
<1>1. IInv => StrayWorkIsLate
  <2> SUFFICES ASSUME IInv, proc = "alive", mode \in {"loading", "computing"},
                      npu \notin Requests, NoneLate
               PROVE  FALSE
    BY DEF StrayWorkIsLate, NoneLate
  <2>1. mode = "computing" => asked # NoOne
    BY DEF IInv, TypeOK, YoloTypeOK
  <2>2. PICK r \in Requests : step[r] \in {"loading", "reading"}
    BY <2>1 DEF IInv, WorkerInv, InStep
  <2>3. npu = r
    BY <2>2 DEF IInv, CalledByOne, NPUIsHeld, Inside, WithNPU
  <2> QED
    BY <2>3
<1> QED
  BY <1>1, VisionDetectInvariant, PTL
-----------------------------------------------------------------------------
(* The counters of the client object. *)

\* Who is in detect was given this client object; so far only finitely many
\* calls were, however many requests there are.
UsersCall ==
  /\ IsFiniteSet(users)
  /\ \A r \in Requests : step[r] \in Inside => r \in users

CallInv == UsersCall /\ CallsAreCounted

LEMMA CallsFinite ==
  ASSUME UsersCall, NEW places
  PROVE  IsFiniteSet(Calls(places)) /\ Cardinality(Calls(places)) \in Nat
<1>1. Calls(places) \in SUBSET users
  BY DEF Calls
<1>2. IsFiniteSet(Calls(places))
  BY <1>1, FS_Subset DEF UsersCall
<1> QED
  BY <1>2, FS_CardinalityType

\* A step of a call enters it among those that ended as it does.
LEMMA CallMoves ==
  ASSUME IInv, UsersCall, NEW r \in users, NEW how, NEW places, UNCHANGED users, Goto(r, how),
         step[r] \notin places
  PROVE  /\ Cardinality(Calls(places)) \in Nat
         /\ how \in places => Cardinality(Calls(places)') = Cardinality(Calls(places)) + 1
         /\ how \notin places => Cardinality(Calls(places)') = Cardinality(Calls(places))
<1>1. users \subseteq Requests /\ DOMAIN step = Requests
  BY DEF IInv, TypeOK, YoloTypeOK
<1>2. step'[r] = how /\ \A q \in users \ {r} : step'[q] = step[q]
  BY <1>1 DEF Goto
<1>3. how \in places => Calls(places)' = Calls(places) \cup {r}
  BY <1>2 DEF Calls
<1>4. how \notin places => Calls(places)' = Calls(places)
  BY <1>2 DEF Calls
<1>5. r \notin Calls(places)
  BY DEF Calls
<1> QED
  BY <1>3, <1>4, <1>5, CallsFinite, FS_AddElement

LEMMA NoneCounted ==
  /\ IsFiniteSet({}) /\ Cardinality({}) = 0
  /\ 0 = Cardinality({}) + 2 * Cardinality({})
<1>1. IsFiniteSet({}) /\ Cardinality({}) = 0
  BY FS_EmptySet
<1> QED
  BY <1>1

LEMMA SameCalls ==
  ASSUME CallInv, UNCHANGED <<users, step, requests, failures>>
  PROVE  CallInv'
<1>1. \A places : Calls(places)' = Calls(places)
  BY DEF Calls
<1> QED
  BY <1>1 DEF CallInv, UsersCall, CallsAreCounted

\* A new client object has new counters, and nobody else is in the old one.
LEMMA CallWorkerCounts ==
  ASSUME IInv, CallInv, NEW r \in Requests, CallWorker(r)
  PROVE  CallInv'
<1>1. /\ step[r] = "outside" /\ Goto(r, "waiting") /\ pc[r] = "running"
      /\ \/ users' = users \cup {r} /\ UNCHANGED <<requests, failures>>
         \/ users' = {r} /\ requests' = 0 /\ failures' = 0
  BY DEF CallWorker, GetWorker, At, counters
<1>2. DOMAIN step = Requests /\ users \subseteq Requests
  BY DEF IInv, TypeOK, YoloTypeOK
<1>3. step'[r] = "waiting" /\ \A q \in Requests \ {r} : step'[q] = step[q] /\ step[q] \notin Inside
  BY <1>1, <1>2, OnlyOneInside DEF Goto
<1>4. UsersCall'
  <2>1. IsFiniteSet(users')
    <3>1. IsFiniteSet(users) /\ IsFiniteSet({r})
      BY FS_Singleton DEF CallInv, UsersCall
    <3>2. IsFiniteSet(users \cup {r})
      BY <3>1, FS_AddElement
    <3> QED
      BY <1>1, <3>1, <3>2
  <2>2. r \in users'
    BY <1>1
  <2> QED
    BY <1>3, <2>1, <2>2 DEF UsersCall
<1>5. CASE users' = users \cup {r} /\ UNCHANGED <<requests, failures>>
  <2>1. ASSUME NEW places, "outside" \notin places, "waiting" \notin places
        PROVE  Calls(places)' = Calls(places)
    BY <1>1, <1>2, <1>3, <1>5, <2>1 DEF Calls
  <2>2. /\ Calls({"ok"})' = Calls({"ok"}) /\ Calls({"refused"})' = Calls({"refused"})
        /\ Calls({"lost", "late"})' = Calls({"lost", "late"})
    BY <2>1
  <2> QED
    BY <1>4, <1>5, <2>2 DEF CallInv, CallsAreCounted
<1>6. CASE users' = {r} /\ requests' = 0 /\ failures' = 0
  <2>1. /\ Calls({"ok"})' = {} /\ Calls({"refused"})' = {} /\ Calls({"lost", "late"})' = {}
    BY <1>3, <1>6 DEF Calls
  <2> QED
    BY <1>4, <1>6, <2>1, NoneCounted DEF CallInv, CallsAreCounted
<1> QED
  BY <1>1, <1>5, <1>6

LEMMA InWorkerCounts ==
  ASSUME IInv, CallInv, NEW r \in Requests, InWorker(r)
  PROVE  CallInv'
<1>1. /\ UNCHANGED users /\ step[r] \in Inside
      /\ \/ \E how \in Inside \cup {"notStarted", "died", "notReady"} :
              Goto(r, how) /\ UNCHANGED requests /\ failures' \in {failures, failures + 0}
         \/ Goto(r, "ok") /\ requests' = requests + 1 /\ UNCHANGED failures
         \/ Goto(r, "refused") /\ failures' = failures + 2 /\ UNCHANGED requests
         \/ \E how \in {"lost", "late"} :
              Goto(r, how) /\ failures' = failures + 1 /\ UNCHANGED requests
  BY DEF InWorker, Detect, Enter, Start, NotStarted, ReadReady, StartEnds, WriteRequest,
         ReadResponse, ReadEnds, Fails, counters, Inside
<1>2. r \in users /\ requests \in Nat /\ failures \in Nat /\ UsersCall
  BY <1>1 DEF CallInv, UsersCall, IInv, TypeOK, YoloTypeOK
<1>3. UsersCall'
  BY <1>1, <1>2 DEF UsersCall, Goto, IInv, TypeOK, YoloTypeOK
<1>4. step[r] \notin {"ok"} /\ step[r] \notin {"refused"} /\ step[r] \notin {"lost", "late"}
  BY <1>1 DEF Inside
<1> DEFINE oks == Calls({"ok"})
           gone == Calls({"lost", "late"})
           bad == Calls({"refused"})
<1>5. ASSUME NEW how, Goto(r, how)
      PROVE  /\ Cardinality(oks) \in Nat /\ Cardinality(gone) \in Nat /\ Cardinality(bad) \in Nat
             /\ Cardinality(oks') = Cardinality(oks) + (IF how = "ok" THEN 1 ELSE 0)
             /\ Cardinality(gone') = Cardinality(gone) + (IF how \in {"lost", "late"} THEN 1 ELSE 0)
             /\ Cardinality(bad') = Cardinality(bad) + (IF how = "refused" THEN 1 ELSE 0)
  BY <1>1, <1>2, <1>4, <1>5, CallMoves
<1>6. requests = Cardinality(oks) /\ failures = Cardinality(gone) + 2 * Cardinality(bad)
  BY DEF CallInv, CallsAreCounted
<1>7. requests' = Cardinality(oks') /\ failures' = Cardinality(gone') + 2 * Cardinality(bad')
  <2> HIDE DEF oks, gone, bad
  <2>1. CASE \E how \in Inside \cup {"notStarted", "died", "notReady"} :
               Goto(r, how) /\ UNCHANGED requests /\ failures' \in {failures, failures + 0}
    BY <1>2, <1>5, <1>6, <2>1 DEF Inside
  <2>2. CASE Goto(r, "ok") /\ requests' = requests + 1 /\ UNCHANGED failures
    BY <1>2, <1>5, <1>6, <2>2
  <2>3. CASE Goto(r, "refused") /\ failures' = failures + 2 /\ UNCHANGED requests
    BY <1>2, <1>5, <1>6, <2>3
  <2>4. CASE \E how \in {"lost", "late"} :
               Goto(r, how) /\ failures' = failures + 1 /\ UNCHANGED requests
    BY <1>2, <1>5, <1>6, <2>4
  <2> QED
    BY <1>1, <2>1, <2>2, <2>3, <2>4
<1> QED
  BY <1>3, <1>7 DEF CallInv, CallsAreCounted

LEMMA NextCallInv == IInv /\ CallInv /\ [Next]_vars => CallInv'
<1> SUFFICES ASSUME IInv, CallInv, [Next]_vars PROVE CallInv'
  OBVIOUS
<1>1. CASE UNCHANGED vars
  BY <1>1, SameCalls DEF vars, yoloVars, counters
<1>2. CASE WorkerProcess
  BY <1>2, SameCalls DEF WorkerProcess, Process, Load, TakeRequest, WriteResponse, Exit,
                         untouched, counters
<1>3. ASSUME NEW r \in Requests, Thread(r) PROVE CallInv'
  <2>1. CASE UNCHANGED yoloVars
    BY <2>1, SameCalls DEF yoloVars, counters
  <2>2. CASE RunProbe(r)
    BY <2>2, SameCalls DEF RunProbe, counters
  <2> QED
    BY <1>3, <2>1, <2>2, CallWorkerCounts, InWorkerCounts
       DEF Thread, EnterQueue, AcquireNPU, StartRequest, FakeDetect, CheckFiles,
           WorkerReturns, CountEnd, ReleaseNPU, LeaveQueue, Answer
<1> QED
  BY <1>1, <1>2, <1>3 DEF Next

(***************************************************************************)
(* The counters of a client object are those of its calls, for any number  *)
(* of them: a failure after the request was written counts once, a refusal *)
(* twice, a failure to start not at all.                                   *)
(***************************************************************************)
THEOREM VisionDetectCallsAreCounted == Spec => []CallsAreCounted
<1>1. Init => CallInv
  <2>1. Init => \A places : Calls(places) = {}
    BY DEF Init, YoloInit, Calls
  <2> QED
    <3>1. ASSUME Init PROVE UsersCall
      BY <3>1, NoneCounted DEF Init, YoloInit, UsersCall, Inside
    <3>2. ASSUME Init PROVE CallsAreCounted
      <4>1. /\ Calls({"ok"}) = {} /\ Calls({"lost", "late"}) = {} /\ Calls({"refused"}) = {}
            /\ requests = 0 /\ failures = 0
        BY <2>1, <3>2 DEF Init, YoloInit
      <4> QED
        BY <4>1, NoneCounted DEF CallsAreCounted
    <3> QED
      BY <3>1, <3>2 DEF CallInv
<1>2. CallInv => CallsAreCounted
  BY DEF CallInv
<1> QED
  BY <1>1, <1>2, NextCallInv, VisionDetectInvariant, PTL DEF Spec
-----------------------------------------------------------------------------
(* The two ledgers. *)

Busy == {"checking", "running", "calling", "completing", "raising"}
Untold == {"arriving", "admitted", "guarded", "checking", "running", "calling", "completing"}
Counted == {"releasing", "leaving"}

\* An exception is known from the except clause on, and the way in which a
\* lease ends is the way in which the backend ended.
EndTells(r) ==
  /\ pc[r] \in Untold => exc[r] = "none"
  /\ visLease[r] \in {"late", "succeeding", "failing"} => pc[r] = "leaving"
  /\ visLease[r] = "succeeding" => exc[r] = "none"
  /\ visLease[r] \in {"late", "failing"} => exc[r] # "none"

EndsTell == \A r \in Requests : EndTells(r)

\* The requests that the backend has counted and the queue has not, or that
\* were refused the NPU, and those whose timeout the queue has not counted.
InHand == {r \in Requests : visLease[r] \in Held /\ pc[r] \in Counted}
Succeeding == {r \in InHand : exc[r] = "none"}
Failing == {r \in InHand : exc[r] # "none"}
TimingOut == {r \in Requests : visLease[r] = "live" /\ exc[r] = "timeout"}

Refusals == Cardinality(Raised("npu busy"))
Timeouts == Cardinality(Raised("timeout"))

Books ==
  /\ total = completed + failed + Cardinality(Within(Busy))
  /\ completed = visCompleted + Cardinality(Succeeding)
  /\ visFailed + Cardinality(Failing) = failed + Refusals
  /\ visTimeouts + Cardinality(TimingOut) = Timeouts

FewRaised == IsFiniteSet(Raised("npu busy")) /\ IsFiniteSet(Raised("timeout"))

LedgerInv == EndsTell /\ FewRaised /\ Books

Bit(b) == IF b THEN 1 ELSE 0

\* The books as they are while r is in the queue.
InBackend(r) == pc[r] \in Busy
HasResult(r) == pc[r] \in Counted /\ exc[r] = "none"
HasFailed(r) == pc[r] \in Counted /\ exc[r] # "none"
HasTimedOut(r) == visLease[r] = "live" /\ exc[r] = "timeout"

BooksWith(r) ==
  /\ total = completed + failed + Bit(InBackend(r))
  /\ completed = visCompleted + Bit(HasResult(r))
  /\ visFailed + Bit(HasFailed(r)) = failed + Refusals
  /\ visTimeouts + Bit(HasTimedOut(r)) = Timeouts

\* The books while nobody is in the queue.
BooksWithout ==
  /\ total = completed + failed
  /\ completed = visCompleted
  /\ visFailed = failed + Refusals
  /\ visTimeouts = Timeouts

NumbersOK ==
  /\ total \in Nat /\ completed \in Nat /\ failed \in Nat
  /\ visCompleted \in Nat /\ visFailed \in Nat /\ visTimeouts \in Nat

LEMMA Numbers ==
  ASSUME IInv
  PROVE  NumbersOK
BY DEF IInv, TypeOK, Vis!TypeOK, NumbersOK

LEMMA AtMostOne ==
  ASSUME NEW S, NEW x, S \subseteq {x}
  PROVE  Cardinality(S) = Bit(x \in S)
<1>1. S = {} \/ S = {x}
  OBVIOUS
<1> QED
  BY <1>1, NoneCounted, FS_Singleton DEF Bit

\* While r holds the queue every other request is outside of it, and stays so
\* in a step of r.
LEMMA OthersOutside ==
  ASSUME IInv, NEW r \in Requests, visLease[r] \in Held, NEW q \in Requests \ {r}
  PROVE  visLease[q] \notin Held /\ pc[q] \notin Working /\ pc[q] \notin Busy
BY DEF IInv, OneWorks, Held, Working, WithNPU, Busy

OnlyStep(r) ==
  \A q \in Requests \ {r} : pc'[q] = pc[q] /\ exc'[q] = exc[q] /\ visLease'[q] = visLease[q]

LEMMA BooksBefore ==
  ASSUME IInv, NEW r \in Requests, visLease[r] \in Held, Books
  PROVE  BooksWith(r)
<1>1. \A q \in Requests \ {r} : visLease[q] \notin Held /\ pc[q] \notin Busy
  BY OthersOutside
<1>2. /\ Within(Busy) \subseteq {r} /\ Succeeding \subseteq {r} /\ Failing \subseteq {r}
      /\ TimingOut \subseteq {r}
  BY <1>1 DEF Within, Succeeding, Failing, TimingOut, InHand, Held
<1>3. /\ r \in Within(Busy) <=> pc[r] \in Busy
      /\ r \in Succeeding <=> pc[r] \in Counted /\ exc[r] = "none"
      /\ r \in Failing <=> pc[r] \in Counted /\ exc[r] # "none"
      /\ r \in TimingOut <=> visLease[r] = "live" /\ exc[r] = "timeout"
  BY DEF Within, Succeeding, Failing, TimingOut, InHand
<1> QED
  BY <1>2, <1>3, AtMostOne DEF Books, BooksWith, InBackend, HasResult, HasFailed, HasTimedOut, Bit

\* After a step of r the books are those with r, or without it if it has left.
LEMMA BooksAfter ==
  ASSUME IInv, NumbersOK', NEW r \in Requests, visLease[r] \in Held, OnlyStep(r),
         \/ visLease'[r] \in Held /\ BooksWith(r)'
         \/ visLease'[r] \notin Held /\ pc'[r] \notin Busy /\ BooksWithout'
  PROVE  Books'
<1>1. \A q \in Requests \ {r} : visLease'[q] \notin Held /\ pc'[q] \notin Busy
  BY OthersOutside DEF OnlyStep
<1>2. /\ Within(Busy)' \subseteq {r} /\ Succeeding' \subseteq {r} /\ Failing' \subseteq {r}
      /\ TimingOut' \subseteq {r}
  BY <1>1 DEF Within, Succeeding, Failing, TimingOut, InHand, Held
<1>3. CASE visLease'[r] \in Held /\ BooksWith(r)'
  <2>1. /\ r \in Within(Busy)' <=> pc'[r] \in Busy
        /\ r \in Succeeding' <=> pc'[r] \in Counted /\ exc'[r] = "none"
        /\ r \in Failing' <=> pc'[r] \in Counted /\ exc'[r] # "none"
        /\ r \in TimingOut' <=> visLease'[r] = "live" /\ exc'[r] = "timeout"
    BY <1>3 DEF Within, Succeeding, Failing, TimingOut, InHand
  <2>2. /\ Cardinality(Within(Busy)') = Bit(pc'[r] \in Busy)
        /\ Cardinality(Succeeding') = Bit(pc'[r] \in Counted /\ exc'[r] = "none")
        /\ Cardinality(Failing') = Bit(pc'[r] \in Counted /\ exc'[r] # "none")
        /\ Cardinality(TimingOut') = Bit(visLease'[r] = "live" /\ exc'[r] = "timeout")
    BY <1>2, <2>1, AtMostOne DEF Bit
  <2> QED
    BY <1>3, <2>2 DEF Books, BooksWith, InBackend, HasResult, HasFailed, HasTimedOut
<1>4. CASE visLease'[r] \notin Held /\ pc'[r] \notin Busy /\ BooksWithout'
  <2>1. Within(Busy)' = {} /\ Succeeding' = {} /\ Failing' = {} /\ TimingOut' = {}
    BY <1>2, <1>4 DEF Within, Succeeding, Failing, TimingOut, InHand, Held
  <2>2. /\ Cardinality(Within(Busy)') = 0 /\ Cardinality(Succeeding') = 0
        /\ Cardinality(Failing') = 0 /\ Cardinality(TimingOut') = 0
    BY <2>1, NoneCounted
  <2> QED
    BY <1>4, <2>2 DEF Books, BooksWithout, NumbersOK
<1> QED
  BY <1>3, <1>4

\* Every request that raises one of the two is counted among them.
RaisedMove(r) ==
  /\ Refusals \in Nat /\ Timeouts \in Nat
  /\ IF exc'[r] = "npu busy" /\ exc[r] # "npu busy" THEN Refusals' = Refusals + 1
                                                   ELSE Refusals' = Refusals
  /\ IF exc'[r] = "timeout" /\ exc[r] # "timeout" THEN Timeouts' = Timeouts + 1
                                                 ELSE Timeouts' = Timeouts

LEMMA RaisedStep ==
  ASSUME FewRaised, NEW r \in Requests, OnlyStep(r), exc'[r] = exc[r] \/ exc[r] = "none",
         NEW what \in {"npu busy", "timeout"}
  PROVE  /\ Cardinality(Raised(what)) \in Nat
         /\ IsFiniteSet(Raised(what)')
         /\ IF exc'[r] = what /\ exc[r] # what
              THEN Cardinality(Raised(what)') = Cardinality(Raised(what)) + 1
              ELSE Cardinality(Raised(what)') = Cardinality(Raised(what))
<1>1. IsFiniteSet(Raised(what)) /\ Cardinality(Raised(what)) \in Nat
  BY FS_CardinalityType DEF FewRaised
<1>2. CASE exc'[r] = what /\ exc[r] # what
  <2>1. Raised(what)' = Raised(what) \cup {r} /\ r \notin Raised(what)
    BY <1>2 DEF Raised, OnlyStep
  <2>2. /\ IsFiniteSet(Raised(what) \cup {r})
        /\ Cardinality(Raised(what) \cup {r}) = Cardinality(Raised(what)) + 1
    BY <1>1, <2>1, FS_AddElement
  <2> QED
    BY <1>1, <1>2, <2>1, <2>2
<1>3. CASE ~(exc'[r] = what /\ exc[r] # what)
  <2>1. Raised(what)' = Raised(what)
    BY <1>3 DEF Raised, OnlyStep
  <2> QED
    BY <1>1, <1>3, <2>1
<1> QED
  BY <1>2, <1>3

\* A step of the request that holds the queue: it is enough to look at what
\* becomes of this request and of the counters.
LEMMA HolderStep ==
  ASSUME IInv, IInv', LedgerInv, NEW r \in Requests, visLease[r] \in Held, OnlyStep(r),
         exc'[r] = exc[r] \/ exc[r] = "none", EndTells(r)',
         NumbersOK /\ NumbersOK' /\ BooksWith(r) /\ RaisedMove(r) =>
           \/ visLease'[r] \in Held /\ BooksWith(r)'
           \/ visLease'[r] \notin Held /\ pc'[r] \notin Busy /\ BooksWithout'
  PROVE  LedgerInv'
<1>1. EndsTell'
  BY DEF LedgerInv, EndsTell, EndTells, OnlyStep
<1>2. RaisedMove(r)
  BY RaisedStep DEF LedgerInv, Refusals, Timeouts, RaisedMove
<1>3. FewRaised'
  BY RaisedStep DEF LedgerInv, FewRaised
<1>4. NumbersOK /\ NumbersOK' /\ BooksWith(r)
  BY BooksBefore DEF LedgerInv, IInv, TypeOK, Vis!TypeOK, NumbersOK
<1>5. Books'
  BY <1>2, <1>4, BooksAfter
<1> QED
  BY <1>1, <1>3, <1>5 DEF LedgerInv

BooksOf(running, result, failure, timeout) ==
  /\ total = completed + failed + running
  /\ completed = visCompleted + result
  /\ visFailed + failure = failed + Refusals
  /\ visTimeouts + timeout = Timeouts

Unmoved == UNCHANGED <<visCompleted, visFailed, visTimeouts, total, completed, failed>>

LEMMA MoreTimeouts ==
  ASSUME NumbersOK, Unmoved, Refusals' = Refusals, Timeouts' = Timeouts + 1,
         BooksOf(1, 0, 0, 0)
  PROVE  BooksOf(1, 0, 0, 1)'
BY DEF NumbersOK, Unmoved, BooksOf

LEMMA MoreRefusals ==
  ASSUME NumbersOK, Unmoved, Refusals \in Nat, Refusals' = Refusals + 1,
         Timeouts' = Timeouts, BooksOf(0, 0, 0, 0)
  PROVE  BooksOf(0, 0, 1, 0)'
BY DEF NumbersOK, Unmoved, BooksOf

\* Between its start and its end the backend moves on, or raises something.
LEMMA BusyMove ==
  ASSUME IInv, IInv', LedgerInv, NEW r \in Requests, NEW to \in Busy,
         pc[r] \in Busy \ {"raising"}, To(r, to), UNCHANGED <<visVars, tally>>,
         \/ to # "raising" /\ exc' = exc
         \/ \E what \in Exceptions \ {"none", "npu busy"} :
              to = "raising" /\ exc' = [exc EXCEPT ![r] = what]
  PROVE  LedgerInv'
<1>1. /\ pc \in [Requests -> Places] /\ exc \in [Requests -> Exceptions]
      /\ visLease[r] = "live" /\ exc[r] = "none" /\ visLease' = visLease
  BY DEF IInv, TypeOK, OneWorks, Working, WithNPU, Busy, LedgerInv, EndsTell, EndTells, Untold, visVars
<1>2. OnlyStep(r) /\ pc'[r] = to
  BY <1>1 DEF OnlyStep, To
<1>3. \/ to # "raising" /\ exc'[r] = "none"
      \/ to = "raising" /\ exc'[r] \notin {"none", "npu busy"}
  BY <1>1
<1>4. Unmoved
  BY DEF visVars, tally, Unmoved
<1>5. visLease'[r] \in Held /\ EndTells(r)'
  BY <1>1, <1>2, <1>3 DEF Held, EndTells, Untold
<1>6. InBackend(r) /\ ~HasResult(r) /\ ~HasFailed(r) /\ ~HasTimedOut(r)
  BY <1>1 DEF InBackend, HasResult, HasFailed, HasTimedOut, Busy, Counted
<1>7. InBackend(r)' /\ ~HasResult(r)' /\ ~HasFailed(r)'
  BY <1>2 DEF InBackend, HasResult, HasFailed, Busy, Counted
<1>8. ASSUME NumbersOK, BooksWith(r), RaisedMove(r) PROVE BooksWith(r)'
  <2>1. BooksOf(1, 0, 0, 0)
    BY <1>6, <1>8 DEF BooksWith, BooksOf, Bit
  <2>2. Refusals' = Refusals
    BY <1>1, <1>3, <1>8 DEF RaisedMove
  <2>3. CASE exc'[r] = "timeout"
    <3>1. BooksOf(1, 0, 0, 1)'
      BY <1>1, <1>4, <1>8, <2>1, <2>2, <2>3, MoreTimeouts DEF RaisedMove
    <3> QED
      BY <1>1, <1>7, <2>3, <3>1 DEF BooksWith, BooksOf, HasTimedOut, Bit
  <2>4. CASE exc'[r] # "timeout"
    <3>1. BooksOf(1, 0, 0, 0)'
      BY <1>1, <1>4, <1>8, <2>1, <2>2, <2>4 DEF RaisedMove, BooksOf, Unmoved
    <3> QED
      BY <1>1, <1>7, <2>4, <3>1 DEF BooksWith, BooksOf, HasTimedOut, Bit
  <2> QED
    BY <2>3, <2>4
<1> QED
  BY <1>1, <1>2, <1>3, <1>5, <1>8, HolderStep

LEMMA AcquireNPULedger ==
  ASSUME IInv, IInv', LedgerInv, NEW r \in Requests, AcquireNPU(r)
  PROVE  LedgerInv'
<1>1. /\ pc \in [Requests -> Places] /\ exc \in [Requests -> Exceptions]
      /\ pc[r] = "admitted" /\ visLease[r] = "live" /\ exc[r] = "none" /\ visLease' = visLease
      /\ Unmoved
  BY DEF IInv, TypeOK, OneWorks, Working, AcquireNPU, At, LedgerInv, EndsTell,
         EndTells, Untold, visVars, tally, Unmoved
<1>2. /\ OnlyStep(r)
      /\ \/ pc'[r] = "guarded" /\ exc'[r] = "none"
         \/ pc'[r] = "leaving" /\ exc'[r] = "npu busy"
  BY <1>1 DEF OnlyStep, AcquireNPU, Raise, To
<1>3. visLease'[r] \in Held /\ EndTells(r)'
  BY <1>1, <1>2 DEF Held, EndTells, Untold
<1>4. ~InBackend(r) /\ ~HasResult(r) /\ ~HasFailed(r) /\ ~HasTimedOut(r)
  BY <1>1 DEF InBackend, HasResult, HasFailed, HasTimedOut, Busy, Counted
<1>5. ~InBackend(r)' /\ ~HasResult(r)' /\ ~HasTimedOut(r)'
  BY <1>2 DEF InBackend, HasResult, HasTimedOut, Busy, Counted
<1>6. ASSUME NumbersOK, BooksWith(r), RaisedMove(r) PROVE BooksWith(r)'
  <2>1. BooksOf(0, 0, 0, 0)
    BY <1>4, <1>6 DEF BooksWith, BooksOf, Bit
  <2>2. Timeouts' = Timeouts
    BY <1>1, <1>2, <1>6 DEF RaisedMove
  <2>3. CASE pc'[r] = "leaving" /\ exc'[r] = "npu busy"
    <3>1. BooksOf(0, 0, 1, 0)'
      BY <1>1, <1>6, <2>1, <2>2, <2>3, MoreRefusals DEF RaisedMove
    <3> QED
      BY <1>5, <2>3, <3>1 DEF BooksWith, BooksOf, HasFailed, Counted, Bit
  <2>4. CASE pc'[r] = "guarded" /\ exc'[r] = "none"
    <3>1. BooksOf(0, 0, 0, 0)'
      BY <1>1, <1>6, <2>1, <2>2, <2>4 DEF RaisedMove, BooksOf, Unmoved
    <3> QED
      BY <1>5, <2>4, <3>1 DEF BooksWith, BooksOf, HasFailed, Counted, Bit
  <2> QED
    BY <1>2, <2>3, <2>4
<1> QED
  BY <1>1, <1>2, <1>3, <1>6, HolderStep

LEMMA StartRequestLedger ==
  ASSUME IInv, IInv', LedgerInv, NEW r \in Requests, StartRequest(r)
  PROVE  LedgerInv'
<1>1. /\ pc \in [Requests -> Places] /\ exc' = exc
      /\ pc[r] = "guarded" /\ visLease[r] = "live" /\ exc[r] = "none" /\ visLease' = visLease
      /\ UNCHANGED <<visCompleted, visFailed, visTimeouts, completed, failed>>
      /\ total' = total + 1
  BY DEF IInv, TypeOK, OneWorks, Working, WithNPU, StartRequest, At, LedgerInv, EndsTell,
         EndTells, Untold, visVars
<1>2. OnlyStep(r) /\ pc'[r] = "checking"
  BY <1>1 DEF OnlyStep, StartRequest, To
<1>3. visLease'[r] \in Held /\ EndTells(r)'
  BY <1>1, <1>2 DEF Held, EndTells, Untold
<1>4. /\ ~InBackend(r) /\ ~HasResult(r) /\ ~HasFailed(r) /\ ~HasTimedOut(r)
      /\ InBackend(r)' /\ ~HasResult(r)' /\ ~HasFailed(r)' /\ ~HasTimedOut(r)'
  BY <1>1, <1>2 DEF InBackend, HasResult, HasFailed, HasTimedOut, Busy, Counted
<1>5. ASSUME NumbersOK, BooksWith(r), RaisedMove(r) PROVE BooksWith(r)'
  BY <1>1, <1>2, <1>4, <1>5 DEF NumbersOK, BooksWith, RaisedMove, Bit
<1> QED
  BY <1>1, <1>2, <1>3, <1>5, HolderStep

LEMMA CountEndLedger ==
  ASSUME IInv, IInv', LedgerInv, NEW r \in Requests, CountEnd(r)
  PROVE  LedgerInv'
<1>1. /\ pc \in [Requests -> Places] /\ exc' = exc /\ pc[r] \in {"completing", "raising"}
      /\ visLease[r] = "live" /\ visLease' = visLease
      /\ UNCHANGED <<visCompleted, visFailed, visTimeouts, total>>
      /\ \/ pc[r] = "completing" /\ exc[r] = "none" /\ completed' = completed + 1 /\ failed' = failed
         \/ pc[r] = "raising" /\ exc[r] # "none" /\ failed' = failed + 1 /\ completed' = completed
  <2>1. /\ pc \in [Requests -> Places] /\ exc' = exc /\ pc[r] \in {"completing", "raising"}
        /\ UNCHANGED <<visVars, total>>
        /\ \/ pc[r] = "completing" /\ completed' = completed + 1 /\ failed' = failed
           \/ pc[r] = "raising" /\ failed' = failed + 1 /\ completed' = completed
    BY DEF IInv, TypeOK, CountEnd, At
  <2>2. visLease[r] = "live"
    BY <2>1 DEF IInv, OneWorks, Working, WithNPU
  <2>3. /\ pc[r] = "completing" => exc[r] = "none"
        /\ pc[r] = "raising" => exc[r] # "none"
    BY DEF IInv, Outcomes, LedgerInv, EndsTell, EndTells, Untold
  <2> QED
    BY <2>1, <2>2, <2>3 DEF visVars
<1>2. OnlyStep(r) /\ pc'[r] = "releasing"
  BY <1>1 DEF OnlyStep, CountEnd, To
<1>3. visLease'[r] \in Held /\ EndTells(r)'
  BY <1>1, <1>2 DEF Held, EndTells, Untold
<1>4. /\ InBackend(r) /\ ~HasResult(r) /\ ~HasFailed(r) /\ ~InBackend(r)'
      /\ HasTimedOut(r)' <=> HasTimedOut(r)
      /\ HasResult(r)' <=> exc[r] = "none"
      /\ HasFailed(r)' <=> exc[r] # "none"
  BY <1>1, <1>2 DEF InBackend, HasResult, HasFailed, HasTimedOut, Busy, Counted
<1>5. ASSUME NumbersOK, BooksWith(r), RaisedMove(r) PROVE BooksWith(r)'
  <2>1. Timeouts' = Timeouts /\ Refusals' = Refusals /\ Timeouts \in Nat /\ Refusals \in Nat
    BY <1>1, <1>5 DEF RaisedMove
  <2>2. CASE exc[r] = "none" /\ completed' = completed + 1 /\ failed' = failed
    <3>1. HasResult(r)' /\ ~HasFailed(r)'
      BY <1>4, <2>2
    <3> QED
      BY <1>1, <1>4, <1>5, <2>1, <2>2, <3>1 DEF NumbersOK, BooksWith, Bit
  <2>3. CASE exc[r] # "none" /\ failed' = failed + 1 /\ completed' = completed
    <3>1. ~HasResult(r)' /\ HasFailed(r)'
      BY <1>4, <2>3
    <3> QED
      BY <1>1, <1>4, <1>5, <2>1, <2>3, <3>1 DEF NumbersOK, BooksWith, Bit
  <2> QED
    BY <1>1, <2>2, <2>3
<1> QED
  BY <1>1, <1>2, <1>3, <1>5, HolderStep

LEMMA ReleaseNPULedger ==
  ASSUME IInv, IInv', LedgerInv, NEW r \in Requests, ReleaseNPU(r)
  PROVE  LedgerInv'
<1>1. /\ pc \in [Requests -> Places] /\ exc' = exc
      /\ pc[r] = "releasing" /\ visLease[r] = "live" /\ visLease' = visLease
      /\ UNCHANGED <<visCompleted, visFailed, visTimeouts, total, completed, failed>>
  BY DEF IInv, TypeOK, OneWorks, Working, WithNPU, ReleaseNPU, At, visVars, tally
<1>2. OnlyStep(r) /\ pc'[r] = "leaving"
  BY <1>1 DEF OnlyStep, ReleaseNPU, To
<1>3. visLease'[r] \in Held /\ EndTells(r)'
  BY <1>1, <1>2 DEF Held, EndTells, Untold
<1>4. /\ ~InBackend(r) /\ ~InBackend(r)'
      /\ HasResult(r)' <=> HasResult(r)
      /\ HasFailed(r)' <=> HasFailed(r)
      /\ HasTimedOut(r)' <=> HasTimedOut(r)
  BY <1>1, <1>2 DEF InBackend, HasResult, HasFailed, HasTimedOut, Busy, Counted
<1>5. ASSUME NumbersOK, BooksWith(r), RaisedMove(r) PROVE BooksWith(r)'
  BY <1>1, <1>2, <1>4, <1>5 DEF NumbersOK, BooksWith, RaisedMove, Bit
<1> QED
  BY <1>1, <1>2, <1>3, <1>5, HolderStep

LEMMA LeaveQueueLedger ==
  ASSUME IInv, IInv', LedgerInv, NEW r \in Requests, LeaveQueue(r)
  PROVE  LedgerInv'
<1>1. /\ pc' = pc /\ exc' = exc /\ pc[r] = "leaving"
      /\ UNCHANGED <<total, completed, failed>>
      /\ visLease \in [Requests -> Vis!LeaseStatus]
  BY DEF LeaveQueue, At, tally, IInv, TypeOK, Vis!TypeOK
<1>2. ~InBackend(r) /\ ~InBackend(r)'
      /\ (HasResult(r) <=> exc[r] = "none") /\ (HasResult(r)' <=> exc[r] = "none")
      /\ (HasFailed(r) <=> exc[r] # "none") /\ (HasFailed(r)' <=> exc[r] # "none")
  BY <1>1 DEF InBackend, HasResult, HasFailed, Busy, Counted
<1>3. ASSUME NEW to, visLease' = [visLease EXCEPT ![r] = to]
      PROVE  OnlyStep(r) /\ visLease'[r] = to
  BY <1>1, <1>3 DEF OnlyStep
<1>4. ASSUME RaisedMove(r)
      PROVE  Timeouts' = Timeouts /\ Refusals' = Refusals /\ Timeouts \in Nat /\ Refusals \in Nat
  BY <1>1, <1>4 DEF RaisedMove
<1>5. CASE exc[r] = "timeout" /\ Vis!CountTimeout(r)
  <2>1. /\ visLease[r] = "live" /\ visTimeouts' = visTimeouts + 1
        /\ visLease' = [visLease EXCEPT ![r] = "late"]
        /\ UNCHANGED <<visCompleted, visFailed>>
    BY <1>5 DEF Vis!CountTimeout
  <2>2. OnlyStep(r) /\ visLease'[r] = "late" /\ EndTells(r)'
    BY <1>1, <1>3, <1>5, <2>1 DEF EndTells, Untold
  <2>3. HasTimedOut(r) /\ ~HasTimedOut(r)'
    BY <1>5, <2>1, <2>2 DEF HasTimedOut
  <2>4. ASSUME NumbersOK, BooksWith(r), RaisedMove(r) PROVE BooksWith(r)'
    BY <1>1, <1>2, <1>4, <1>5, <2>1, <2>3, <2>4 DEF NumbersOK, BooksWith, Bit
  <2> QED
    BY <1>1, <2>1, <2>2, <2>4, HolderStep DEF Held
<1>6. ASSUME NEW how \in {"succeeding", "failing"}, Vis!EnterFinish(r, how),
             exc[r] = "none" <=> how = "succeeding",
             exc[r] = "timeout" => visLease[r] = "late"
      PROVE  LedgerInv'
  <2>1. /\ visLease[r] \in {"live", "late"} /\ visLease' = [visLease EXCEPT ![r] = how]
        /\ UNCHANGED <<visCompleted, visFailed, visTimeouts>>
    BY <1>6 DEF Vis!EnterFinish, Vis!counters
  <2>2. OnlyStep(r) /\ visLease'[r] = how /\ EndTells(r)'
    BY <1>1, <1>3, <1>6, <2>1 DEF EndTells, Untold
  <2>3. ~HasTimedOut(r) /\ ~HasTimedOut(r)'
    BY <1>1, <1>6, <2>1, <2>2 DEF HasTimedOut
  <2>4. ASSUME NumbersOK, BooksWith(r), RaisedMove(r) PROVE BooksWith(r)'
    BY <1>1, <1>2, <1>4, <2>1, <2>3, <2>4 DEF NumbersOK, BooksWith, Bit
  <2> QED
    BY <1>1, <2>1, <2>2, <2>4, HolderStep DEF Held
<1>7. CASE Vis!CommitFinish(r)
  <2>1. \/ /\ visLease[r] = "succeeding" /\ visLease' = [visLease EXCEPT ![r] = "succeeded"]
           /\ visCompleted' = visCompleted + 1 /\ visFailed' = visFailed
        \/ /\ visLease[r] = "failing" /\ visLease' = [visLease EXCEPT ![r] = "failed"]
           /\ visFailed' = visFailed + 1 /\ visCompleted' = visCompleted
    BY <1>7 DEF Vis!CommitFinish
  <2>2. visTimeouts' = visTimeouts
    BY <1>7 DEF Vis!CommitFinish
  <2>3. EndTells(r) /\ visLease[r] \in Held
    BY <2>1 DEF LedgerInv, EndsTell, Held
  <2>4. /\ OnlyStep(r) /\ visLease'[r] \in {"succeeded", "failed"}
        /\ visLease'[r] \notin Held /\ EndTells(r)' /\ pc'[r] \notin Busy
    <3>1. OnlyStep(r) /\ visLease'[r] \in {"succeeded", "failed"}
      BY <1>3, <2>1
    <3> QED
      BY <1>1, <3>1 DEF EndTells, Untold, Held, Busy
  <2>5. ~HasTimedOut(r)
    BY <2>1 DEF HasTimedOut
  <2>6. ASSUME NumbersOK, BooksWith(r), RaisedMove(r) PROVE BooksWithout'
    <3>1. CASE visLease[r] = "succeeding"
      <4>1. HasResult(r) /\ ~HasFailed(r) /\ visCompleted' = visCompleted + 1 /\ visFailed' = visFailed
        BY <1>2, <2>1, <2>3, <3>1 DEF EndTells
      <4> QED
        BY <1>1, <1>2, <1>4, <2>2, <2>5, <2>6, <4>1 DEF NumbersOK, BooksWith, BooksWithout, Bit
    <3>2. CASE visLease[r] = "failing"
      <4>1. ~HasResult(r) /\ HasFailed(r) /\ visCompleted' = visCompleted /\ visFailed' = visFailed + 1
        BY <1>2, <2>1, <2>3, <3>2 DEF EndTells
      <4> QED
        BY <1>1, <1>2, <1>4, <2>2, <2>5, <2>6, <4>1 DEF NumbersOK, BooksWith, BooksWithout, Bit
    <3> QED
      BY <2>1, <3>1, <3>2
  <2> QED
    BY <1>1, <2>3, <2>4, <2>6, HolderStep
<1> QED
  BY <1>5, <1>6, <1>7 DEF LeaveQueue, LedgerInv, EndsTell, EndTells, Vis!EnterFinish

\* Coming and going: who is outside of the queue is in neither ledger.
LEMMA OutsideLedger ==
  ASSUME IInv, LedgerInv, NEW r \in Requests, EnterQueue(r) \/ Answer(r)
  PROVE  LedgerInv'
<1>1. /\ pc \in [Requests -> Places] /\ exc' = exc
      /\ visLease \in [Requests -> Vis!LeaseStatus]
      /\ UNCHANGED <<total, completed, failed, visCompleted, visFailed, visTimeouts>>
  BY DEF EnterQueue, Answer, IInv, TypeOK, Vis!TypeOK, tally, visVars, Vis!Accept, Vis!RejectBusy
<1>2. /\ \A q \in Requests \ {r} : pc'[q] = pc[q] /\ visLease'[q] = visLease[q]
      /\ pc[r] \notin Busy /\ pc'[r] \notin Busy
      /\ \/ /\ pc[r] = "arriving" /\ pc'[r] \in {"answered", "admitted"}
            /\ visLease[r] = "none" /\ visLease'[r] \in {"refused", "live"}
         \/ /\ pc[r] = "leaving" /\ pc'[r] = "answered"
            /\ visLease'[r] = visLease[r] /\ visLease[r] \in {"succeeded", "failed"}
  <2>1. CASE EnterQueue(r)
    <3>1. /\ pc[r] = "arriving" /\ visLease[r] = "none"
          /\ \E to \in {"answered", "admitted"} : pc' = [pc EXCEPT ![r] = to]
          /\ \E to \in {"refused", "live"} : visLease' = [visLease EXCEPT ![r] = to]
      BY <2>1 DEF EnterQueue, At, To, Vis!Accept, Vis!RejectBusy
    <3> QED
      BY <1>1, <3>1 DEF Busy
  <2>2. CASE Answer(r)
    <3>1. /\ pc[r] = "leaving" /\ pc' = [pc EXCEPT ![r] = "answered"] /\ visLease' = visLease
          /\ visLease[r] \in {"succeeded", "failed"}
      BY <2>2 DEF Answer, At, To, visVars
    <3> QED
      BY <1>1, <3>1 DEF Busy
  <2> QED
    BY <2>1, <2>2
<1>3. EndsTell'
  BY <1>1, <1>2 DEF LedgerInv, EndsTell, EndTells, Untold
<1>4. /\ Within(Busy)' = Within(Busy) /\ Raised("npu busy")' = Raised("npu busy")
      /\ Raised("timeout")' = Raised("timeout")
  BY <1>1, <1>2 DEF Within, Raised
<1>5. InHand' = InHand
  BY <1>2 DEF InHand, Held, Counted
<1>6. TimingOut' = TimingOut
  <2>1. pc[r] = "arriving" => exc[r] = "none"
    BY DEF LedgerInv, EndsTell, EndTells, Untold
  <2> QED
    BY <1>1, <1>2, <2>1 DEF TimingOut
<1>7. Succeeding' = Succeeding /\ Failing' = Failing
  BY <1>1, <1>5 DEF Succeeding, Failing
<1> QED
  BY <1>1, <1>3, <1>4, <1>6, <1>7 DEF LedgerInv, FewRaised, Books, Refusals, Timeouts

LEMMA SameLedger ==
  ASSUME LedgerInv, UNCHANGED <<visVars, tally, pc, exc>>
  PROVE  LedgerInv'
<1>1. /\ Within(Busy)' = Within(Busy) /\ Raised("npu busy")' = Raised("npu busy")
      /\ Raised("timeout")' = Raised("timeout") /\ TimingOut' = TimingOut /\ InHand' = InHand
  BY DEF Within, Raised, TimingOut, InHand, visVars
<1>2. Succeeding' = Succeeding /\ Failing' = Failing
  BY <1>1 DEF Succeeding, Failing
<1> QED
  BY <1>1, <1>2 DEF LedgerInv, EndsTell, EndTells, FewRaised, Books, Refusals, Timeouts, visVars, tally

LEMMA NextLedgerInv == IInv /\ LedgerInv /\ [Next]_vars => LedgerInv'
<1> SUFFICES ASSUME IInv, LedgerInv, [Next]_vars PROVE LedgerInv'
  OBVIOUS
<1>1. IInv'
  BY NextIInv
<1>2. CASE UNCHANGED vars
  BY <1>2, SameLedger DEF vars
<1>3. CASE WorkerProcess
  BY <1>3, SameLedger DEF WorkerProcess
<1>4. ASSUME NEW r \in Requests, FakeDetect(r) \/ CheckFiles(r) PROVE LedgerInv'
  <2>1. /\ pc[r] = "checking" /\ UNCHANGED <<visVars, tally>>
        /\ \/ /\ \E what \in {"file missing", "bad image", "model missing", "probe error"} :
                   Raise(r, what, "raising")
           \/ \E to \in {"completing", "running"} : To(r, to) /\ exc' = exc
    BY <1>4 DEF FakeDetect, CheckFiles, ProbeImage, At
  <2> QED
    BY <1>1, <2>1, BusyMove DEF Raise, Busy, Exceptions
<1>5. ASSUME NEW r \in Requests, RunProbe(r) PROVE LedgerInv'
  <2>1. /\ pc[r] = "running" /\ UNCHANGED <<visVars, tally>>
        /\ \/ /\ \E what \in {"probe error", "file missing", "other"} : Raise(r, what, "raising")
           \/ To(r, "completing") /\ exc' = exc
    BY <1>5 DEF RunProbe, ProbeFinds, ProbeFails, At
  <2> QED
    BY <1>1, <2>1, BusyMove DEF Raise, Busy, Exceptions
<1>6. ASSUME NEW r \in Requests, CallWorker(r) PROVE LedgerInv'
  BY <1>1, <1>6, BusyMove DEF CallWorker, At, Busy
<1>7. ASSUME NEW r \in Requests, InWorker(r) PROVE LedgerInv'
  BY <1>7, SameLedger DEF InWorker
<1>8. ASSUME NEW r \in Requests, WorkerReturns(r) PROVE LedgerInv'
  <2>1. /\ pc[r] = "calling" /\ UNCHANGED <<visVars, tally>>
        /\ \/ /\ \E what \in {"other", "timeout", "file missing"} : Raise(r, what, "raising")
           \/ To(r, "completing") /\ exc' = exc
    BY <1>8 DEF WorkerReturns, At
  <2> QED
    BY <1>1, <2>1, BusyMove DEF Raise, Busy, Exceptions
<1>9. ASSUME NEW r \in Requests, Thread(r) PROVE LedgerInv'
  BY <1>1, <1>4, <1>5, <1>6, <1>7, <1>8, <1>9, OutsideLedger, AcquireNPULedger,
     StartRequestLedger, CountEndLedger, ReleaseNPULedger, LeaveQueueLedger DEF Thread
<1> QED
  BY <1>2, <1>3, <1>9 DEF Next

LEMMA InitLedgerInv == Init => LedgerInv
<1> SUFFICES ASSUME Init PROVE LedgerInv
  OBVIOUS
<1>1. EndsTell
  BY DEF Init, Vis!Init, EndsTell, EndTells, Untold
<1>2. /\ Within(Busy) = {} /\ Raised("npu busy") = {} /\ Raised("timeout") = {}
      /\ Succeeding = {} /\ Failing = {} /\ TimingOut = {}
  BY DEF Init, Vis!Init, Within, Busy, Raised, Succeeding, Failing, InHand, TimingOut, Held
<1>3. /\ total = 0 /\ completed = 0 /\ failed = 0
      /\ visCompleted = 0 /\ visFailed = 0 /\ visTimeouts = 0
  BY DEF Init, Vis!Init
<1>4. FewRaised /\ Refusals = 0 /\ Timeouts = 0
  BY <1>2, NoneCounted DEF FewRaised, Refusals, Timeouts
<1>5. /\ Cardinality(Within(Busy)) = 0 /\ Cardinality(Succeeding) = 0
      /\ Cardinality(Failing) = 0 /\ Cardinality(TimingOut) = 0
  BY <1>2, NoneCounted
<1> QED
  BY <1>1, <1>3, <1>4, <1>5 DEF LedgerInv, Books

(***************************************************************************)
(* The two ledgers of /v1/metrics agree whenever no request is in the      *)
(* queue, and the backend's total is what ended plus what runs, for any    *)
(* number of requests: no exception of the handler, the backend or the     *)
(* worker is counted by one of them alone, or twice.                       *)
(***************************************************************************)
THEOREM VisionDetectLedgersAgree == Spec => []LedgersAgree
<1>1. ASSUME IInv, LedgerInv PROVE LedgersAgree
  <2>1. ASSUME ~visLocked
        PROVE  /\ Cardinality(Succeeding) = 0 /\ Cardinality(Failing) = 0
               /\ Cardinality(TimingOut) = 0
    <3>1. Succeeding = {} /\ Failing = {} /\ TimingOut = {}
      BY <1>1, <2>1 DEF IInv, OneWorks, Succeeding, Failing, InHand, TimingOut, Held
    <3> QED
      BY <3>1, NoneCounted
  <2>2. NumbersOK /\ Books
    BY <1>1, Numbers DEF LedgerInv
  <2>3. ASSUME ~visLocked
        PROVE  visCompleted = completed /\ visFailed = failed + Refusals /\ visTimeouts = Timeouts
    BY <2>1, <2>2, <2>3 DEF NumbersOK, Books
  <2> QED
    BY <2>2, <2>3 DEF Books, LedgersAgree, Busy, Refusals, Timeouts
<1> QED
  BY <1>1, InitLedgerInv, NextLedgerInv, VisionDetectInvariant, PTL DEF Spec
=============================================================================
