------------------------ MODULE LLMQueueMetricsProofs ------------------------
(***************************************************************************)
(* Theorems about the LLM queue statement by statement and its reader, for *)
(* every set of requests.                                                  *)
(*                                                                         *)
(* Two results: the statements implement the atomic methods, and the       *)
(* metrics thread, which takes no lock, misses one request at most.        *)
(***************************************************************************)
EXTENDS LLMQueueMetrics, SequenceTheorems, TLAPS

USE NoOneAssumption DEF NoOneAssumption

Counters == {total, accepted, rejected, completed, failed, timeouts}

\* The loop is in a method of one request, whose lease has the status the
\* method expects; the lock has been taken and not yet entered in the books
\* only between the two statements that do so.
LoopInv ==
  /\ Counters \subseteq Nat
  /\ locked \in BOOLEAN
  /\ lease \in [Requests -> {"none", "refused", "live", "succeeded", "failed"}]
  /\ \/ loop = Idle
     \/ /\ loop.at \in {"counted", "locked"}
        /\ loop.how = "none"
        /\ loop.req \in Requests /\ lease[loop.req] = "none"
        /\ loop.at = "locked" => locked
     \/ /\ loop.at = "late"
        /\ loop.how = "late"
        /\ loop.req \in Requests /\ lease[loop.req] = "live"
     \/ /\ loop.at = "recorded"
        /\ loop.how \in {"succeeded", "failed", "late"}
        /\ loop.req \in Requests /\ lease[loop.req] = "live"

LEMMA InitLoopInv == Init => LoopInv
<1> SUFFICES ASSUME Init PROVE LoopInv
  OBVIOUS
<1>1. Counters \subseteq Nat
  BY DEF Init, Counters
<1>2. lease \in [Requests -> {"none", "refused", "live", "succeeded", "failed"}]
  BY DEF Init
<1> QED
  BY <1>1, <1>2 DEF Init, LoopInv

LEMMA NextLoopInv == LoopInv /\ [Next]_vars => LoopInv'
<1> SUFFICES ASSUME LoopInv, [Next]_vars PROVE LoopInv'
  OBVIOUS
<1> USE DEF LoopInv, Counters
<1>1. CASE UNCHANGED <<queue, loop>>
  BY <1>1 DEF queue
<1>2. ASSUME NEW r \in Requests, CountRequest(r) PROVE LoopInv'
  BY <1>2 DEF CountRequest, Idle
<1>3. CASE Refuse
  BY <1>3 DEF Refuse, Idle
<1>4. CASE TakeLock
  BY <1>4 DEF TakeLock, Idle
<1>5. CASE CountAccepted
  BY <1>5 DEF CountAccepted, Idle
<1>6. ASSUME NEW r \in Requests, CountTimeout(r) PROVE LoopInv'
  BY <1>6 DEF CountTimeout, Idle
<1>7. ASSUME NEW r \in Requests, NEW how \in {"succeeded", "failed", "late"},
             CountEnd(r, how)
      PROVE  LoopInv'
  BY <1>7 DEF CountEnd, Idle
<1>8. CASE FreeLock
  <2>1. loop.how \in {"succeeded", "failed", "late"}
    BY <1>8 DEF FreeLock, Idle
  <2>2. lease' \in [Requests -> {"none", "refused", "live", "succeeded", "failed"}]
    BY <1>8, <2>1 DEF FreeLock
  <2> QED
    BY <1>8, <2>2 DEF FreeLock
<1> QED
  BY <1>1, <1>2, <1>3, <1>4, <1>5, <1>6, <1>7, <1>8
     DEF Next, EventLoop, ReadField, NewSnapshot, vars, queue
-----------------------------------------------------------------------------
LEMMA InitRefines == Init => Atomic!Init
<1> SUFFICES ASSUME Init PROVE Atomic!Init
  OBVIOUS
<1>1. \A places \in SUBSET (Places \ {"idle"}) : \A hows : Pending(places, hows) = 0
  BY DEF Init, Idle, Pending
<1> QED
  BY <1>1 DEF Init, Idle, Places, Atomic!Init

\* A method that is under way shows the state it found: only the last of
\* its statements is a step of the atomic queue.
LEMMA NextRefines == LoopInv /\ [Next]_vars => [Atomic!Next]_(Atomic!vars)
<1> SUFFICES ASSUME LoopInv, [Next]_vars PROVE [Atomic!Next]_(Atomic!vars)
  OBVIOUS
<1> USE DEF LoopInv, Counters, Pending
<1>1. CASE UNCHANGED <<queue, loop>>
  BY <1>1 DEF queue, Atomic!vars
<1>2. ASSUME NEW r \in Requests, CountRequest(r) PROVE UNCHANGED Atomic!vars
  BY <1>2 DEF CountRequest, Idle, Atomic!vars
<1>3. CASE TakeLock
  BY <1>3 DEF TakeLock, Idle, Atomic!vars
<1>4. ASSUME NEW r \in Requests, CountTimeout(r) PROVE UNCHANGED Atomic!vars
  BY <1>4 DEF CountTimeout, Idle, Atomic!vars
<1>5. ASSUME NEW r \in Requests, NEW how \in {"succeeded", "failed", "late"},
             CountEnd(r, how)
      PROVE  UNCHANGED Atomic!vars
  BY <1>5 DEF CountEnd, Idle, Atomic!vars
<1>6. CASE Refuse
  <2>1. Atomic!RejectBusy(loop.req)
    BY <1>6 DEF Refuse, Idle, Atomic!RejectBusy
  <2> QED
    BY <1>6, <2>1 DEF Refuse, Idle, Atomic!Next
<1>7. CASE CountAccepted
  <2>1. Atomic!Accept(loop.req)
    BY <1>7 DEF CountAccepted, Idle, Atomic!Accept
  <2> QED
    BY <1>7, <2>1 DEF CountAccepted, Idle, Atomic!Next
<1>8. CASE FreeLock
  <2>1. loop.req \in Requests /\ lease[loop.req] = "live" /\ loop.at = "recorded"
    BY <1>8 DEF FreeLock, Idle
  <2>2. CASE loop.how = "late"
    <3>1. Atomic!TimeoutFinish(loop.req)
      BY <1>8, <2>1, <2>2 DEF FreeLock, Idle, Atomic!TimeoutFinish, Atomic!Record
    <3> QED
      BY <2>1, <3>1 DEF Atomic!Next
  <2>3. CASE loop.how \in {"succeeded", "failed"}
    <3>0. /\ lease' = [lease EXCEPT ![loop.req] = loop.how]
          /\ loop'.at = "idle" /\ loop'.how = "none"
          /\ locked' = FALSE /\ current' = NoOne
          /\ UNCHANGED <<total, accepted, rejected, completed, failed, timeouts>>
      BY <1>8, <2>3 DEF FreeLock, Idle
    <3>1. Atomic!Record(loop.req, loop.how)
      <4>1. CASE loop.how = "succeeded"
        BY <2>1, <3>0, <4>1 DEF Atomic!Record
      <4>2. CASE loop.how = "failed"
        BY <2>1, <3>0, <4>2 DEF Atomic!Record
      <4> QED
        BY <2>3, <4>1, <4>2
    <3>2. UNCHANGED (timeouts - Pending({"late", "recorded"}, {"late"}))
      BY <1>8, <2>1, <2>3 DEF FreeLock, Idle
    <3>3. Atomic!Finish(loop.req, loop.how)
      BY <2>1, <3>1, <3>2 DEF Atomic!Finish, Atomic!Released
    <3> QED
      BY <2>1, <2>3, <3>3 DEF Atomic!Next
  <2> QED
    BY <2>1, <2>2, <2>3 DEF Idle
<1> QED
  BY <1>1, <1>2, <1>3, <1>4, <1>5, <1>6, <1>7, <1>8
     DEF Next, EventLoop, ReadField, NewSnapshot, vars, queue

(***************************************************************************)
(* Statement by statement acquire_nowait, _finish_lease and run_nowait are *)
(* the atomic methods of LLMRequestQueue, for any set of requests.         *)
(***************************************************************************)
THEOREM StatementsImplementMethods == Spec => AtomicSpec
BY InitLoopInv, NextLoopInv, InitRefines, NextRefines, PTL
   DEF Spec, AtomicSpec, Atomic!Spec
-----------------------------------------------------------------------------
\* The books between any two statements: a request is missing from the
\* second counter only while the loop, or the request itself, is between them.
Books ==
  /\ total = accepted + rejected + (IF loop.at \in {"counted", "locked"} THEN 1 ELSE 0)
  /\ accepted = completed + failed +
                (IF locked /\ loop.at \notin {"locked", "recorded"} THEN 1 ELSE 0)
  /\ \A r \in Requests : lease[r] = "live" => locked /\ loop.at # "locked"
  /\ \A r, s \in Requests : lease[r] = "live" /\ lease[s] = "live" => r = s

LEMMA NextBooks == LoopInv /\ Books /\ [Next]_vars => Books'
<1> SUFFICES ASSUME LoopInv, Books, [Next]_vars PROVE Books'
  OBVIOUS
<1> USE DEF LoopInv, Counters, Books
<1>1. CASE UNCHANGED <<queue, loop>>
  BY <1>1 DEF queue
<1>2. ASSUME NEW r \in Requests, CountRequest(r) PROVE Books'
  BY <1>2 DEF CountRequest, Idle
<1>3. CASE Refuse
  BY <1>3 DEF Refuse, Idle
<1>4. CASE TakeLock
  BY <1>4 DEF TakeLock, Idle
<1>5. CASE CountAccepted
  BY <1>5 DEF CountAccepted, Idle
<1>6. ASSUME NEW r \in Requests, CountTimeout(r) PROVE Books'
  BY <1>6 DEF CountTimeout, Idle
<1>7. ASSUME NEW r \in Requests, NEW how \in {"succeeded", "failed", "late"},
             CountEnd(r, how)
      PROVE  Books'
  BY <1>7 DEF CountEnd, Idle
<1>8. CASE FreeLock
  BY <1>8 DEF FreeLock, Idle
<1> QED
  BY <1>1, <1>2, <1>3, <1>4, <1>5, <1>6, <1>7, <1>8
     DEF Next, EventLoop, ReadField, NewSnapshot, vars, queue

\* The fields as the snapshot under way will show them: what was read, or
\* what would be read now.
Shown(i, now) == IF i <= Len(seen) THEN seen[i] ELSE now
ShownAccepted == Shown(3, accepted)
ShownRejected == Shown(4, rejected)
ShownCompleted == Shown(5, completed)
ShownFailed == Shown(6, failed)

\* Counters only grow, so a snapshot that looked well when it read the one
\* counter looks no worse when it has read the others.
SeenInv ==
  /\ seen \in Seq(Nat \cup BOOLEAN) /\ Len(seen) <= 7
  /\ {ShownAccepted, ShownRejected, ShownCompleted, ShownFailed} \subseteq Nat
  /\ Len(seen) >= 2 => seen[2] \in Nat /\ seen[2] <= ShownAccepted + ShownRejected + 1
  /\ Len(seen) >= 3 => seen[3] <= ShownCompleted + ShownFailed + 1

\* No counter goes down.
LEMMA CountersGrow ==
  ASSUME LoopInv, EventLoop
  PROVE  /\ UNCHANGED seen
         /\ accepted' \in Nat /\ accepted <= accepted'
         /\ rejected' \in Nat /\ rejected <= rejected'
         /\ completed' \in Nat /\ completed <= completed'
         /\ failed' \in Nat /\ failed <= failed'
<1> USE DEF LoopInv, Counters
<1>1. ASSUME NEW r \in Requests, NEW how \in {"succeeded", "failed", "late"},
             CountEnd(r, how)
      PROVE  /\ UNCHANGED <<seen, accepted, rejected>>
             /\ completed' \in Nat /\ completed <= completed'
             /\ failed' \in Nat /\ failed <= failed'
  BY <1>1 DEF CountEnd
<1> QED
  BY <1>1 DEF EventLoop, CountRequest, Refuse, TakeLock, CountAccepted, CountTimeout, FreeLock

LEMMA InitSeen == Init => Books /\ SeenInv
<1> SUFFICES ASSUME Init PROVE Books /\ SeenInv
  OBVIOUS
<1>1. Books
  BY DEF Init, Idle, Books
<1>2. SeenInv
  BY DEF Init, SeenInv, Shown, ShownAccepted, ShownRejected, ShownCompleted, ShownFailed
<1> QED
  BY <1>1, <1>2

LEMMA FirstNumbers ==
  \A n \in Nat : /\ n = 0 \/ n = 1 \/ n >= 2
                 /\ n = 0 \/ n = 1 \/ n = 2 \/ n >= 3
OBVIOUS

\* Reading one field: what it shows becomes what it showed.
LEMMA ReadFieldSeen ==
  ASSUME LoopInv, Books, SeenInv, ReadField
  PROVE  SeenInv'
<1>1. Fields \in Seq(Nat \cup BOOLEAN) /\ Len(Fields) = 7
  BY DEF Fields, LoopInv, Counters
<1>2. /\ Fields[2] = total /\ Fields[3] = accepted /\ Fields[4] = rejected
      /\ Fields[5] = completed /\ Fields[6] = failed
  BY DEF Fields
<1>3. /\ total \in Nat /\ accepted \in Nat /\ rejected \in Nat
      /\ completed \in Nat /\ failed \in Nat
      /\ total' = total /\ accepted' = accepted /\ rejected' = rejected
      /\ completed' = completed /\ failed' = failed
  BY DEF ReadField, queue, LoopInv, Counters
<1>4. /\ seen \in Seq(Nat \cup BOOLEAN) /\ Len(seen) \in Nat /\ Len(seen) < 7
      /\ seen' = Append(seen, Fields[Len(seen) + 1])
  BY <1>1 DEF ReadField, SeenInv
<1>5. Fields[Len(seen) + 1] \in Nat \cup BOOLEAN
  <2>1. Len(seen) + 1 \in 1..Len(Fields)
    BY <1>1, <1>4
  <2> QED
    BY <1>1, <2>1, ElementOfSeq
<1>6. /\ seen' \in Seq(Nat \cup BOOLEAN) /\ Len(seen') = Len(seen) + 1
      /\ \A i \in 1..Len(seen) : seen'[i] = seen[i]
      /\ seen'[Len(seen) + 1] = Fields[Len(seen) + 1]
  BY <1>4, <1>5
<1>7. /\ ShownAccepted' = ShownAccepted /\ ShownRejected' = ShownRejected
      /\ ShownCompleted' = ShownCompleted /\ ShownFailed' = ShownFailed
  <2>1. ASSUME NEW i \in 3..6, NEW now, NEW next, next = now, Fields[i] = now
        PROVE  (IF i <= Len(seen') THEN seen'[i] ELSE next) =
               (IF i <= Len(seen) THEN seen[i] ELSE now)
    BY <1>4, <1>6, <2>1
  <2> QED
    BY <1>2, <1>3, <2>1
       DEF ShownAccepted, ShownRejected, ShownCompleted, ShownFailed, Shown
<1>8. Len(seen') >= 2 => seen'[2] \in Nat /\ seen'[2] <= ShownAccepted' + ShownRejected' + 1
  <2>1. CASE Len(seen) = 1
    <3>1. ShownAccepted = accepted /\ ShownRejected = rejected
      BY <2>1 DEF ShownAccepted, ShownRejected, Shown
    <3>2. total <= accepted + rejected + 1
      BY <1>3 DEF Books
    <3> QED
      BY <1>2, <1>3, <1>6, <1>7, <2>1, <3>1, <3>2
  <2>2. CASE Len(seen) >= 2
    BY <1>4, <1>6, <1>7, <2>2 DEF SeenInv
  <2>3. CASE Len(seen) = 0
    BY <1>6, <2>3
  <2>4. Len(seen) = 0 \/ Len(seen) = 1 \/ Len(seen) >= 2
    BY <1>4, FirstNumbers, Zenon
  <2> QED
    BY <2>1, <2>2, <2>3, <2>4, Zenon
<1>9. Len(seen') >= 3 => seen'[3] <= ShownCompleted' + ShownFailed' + 1
  <2>1. CASE Len(seen) = 2
    <3>1. ShownCompleted = completed /\ ShownFailed = failed
      BY <2>1 DEF ShownCompleted, ShownFailed, Shown
    <3>2. accepted <= completed + failed + 1
      BY <1>3 DEF Books
    <3> QED
      BY <1>2, <1>3, <1>6, <1>7, <2>1, <3>1, <3>2
  <2>2. CASE Len(seen) >= 3
    BY <1>4, <1>6, <1>7, <2>2 DEF SeenInv
  <2>3. CASE Len(seen) = 0 \/ Len(seen) = 1
    BY <1>6, <2>3
  <2>4. Len(seen) = 0 \/ Len(seen) = 1 \/ Len(seen) = 2 \/ Len(seen) >= 3
    BY <1>4, FirstNumbers, Zenon
  <2> QED
    BY <2>1, <2>2, <2>3, <2>4, Zenon
<1> QED
  BY <1>4, <1>6, <1>7, <1>8, <1>9 DEF SeenInv

LEMMA EventLoopSeen ==
  ASSUME LoopInv, SeenInv, EventLoop
  PROVE  SeenInv'
<1>1. seen' = seen
  BY CountersGrow
<1>2. ASSUME NEW i \in 3..6, NEW now \in Nat, NEW next \in Nat, now <= next,
             Shown(i, now) \in Nat
      PROVE  Shown(i, next) \in Nat /\ Shown(i, now) <= Shown(i, next)
  BY <1>2 DEF Shown
<1>3. /\ ShownAccepted' = Shown(3, accepted') /\ ShownRejected' = Shown(4, rejected')
      /\ ShownCompleted' = Shown(5, completed') /\ ShownFailed' = Shown(6, failed')
  BY <1>1 DEF Shown, ShownAccepted, ShownRejected, ShownCompleted, ShownFailed
<1>4. /\ ShownAccepted' \in Nat /\ ShownAccepted <= ShownAccepted'
      /\ ShownRejected' \in Nat /\ ShownRejected <= ShownRejected'
      /\ ShownCompleted' \in Nat /\ ShownCompleted <= ShownCompleted'
      /\ ShownFailed' \in Nat /\ ShownFailed <= ShownFailed'
  <2>1. /\ accepted \in Nat /\ rejected \in Nat /\ completed \in Nat /\ failed \in Nat
        /\ Shown(3, accepted) \in Nat /\ Shown(4, rejected) \in Nat
        /\ Shown(5, completed) \in Nat /\ Shown(6, failed) \in Nat
    BY DEF SeenInv, LoopInv, Counters,
           ShownAccepted, ShownRejected, ShownCompleted, ShownFailed
  <2>2. /\ Shown(3, accepted') \in Nat /\ Shown(3, accepted) <= Shown(3, accepted')
        /\ Shown(4, rejected') \in Nat /\ Shown(4, rejected) <= Shown(4, rejected')
    BY <1>2, <2>1, CountersGrow
  <2>3. /\ Shown(5, completed') \in Nat /\ Shown(5, completed) <= Shown(5, completed')
        /\ Shown(6, failed') \in Nat /\ Shown(6, failed) <= Shown(6, failed')
    BY <1>2, <2>1, CountersGrow
  <2> QED
    BY <1>3, <2>2, <2>3
       DEF ShownAccepted, ShownRejected, ShownCompleted, ShownFailed
<1>5. Len(seen) >= 3 => seen[3] \in Nat
  BY DEF SeenInv, ShownAccepted, Shown
<1>6. /\ ShownAccepted \in Nat /\ ShownRejected \in Nat
      /\ ShownCompleted \in Nat /\ ShownFailed \in Nat
  BY DEF SeenInv
<1>7. Len(seen) >= 2 => seen[2] <= ShownAccepted' + ShownRejected' + 1
  BY <1>4, <1>6 DEF SeenInv
<1>8. Len(seen) >= 3 => seen[3] <= ShownCompleted' + ShownFailed' + 1
  BY <1>4, <1>5, <1>6 DEF SeenInv
<1> QED
  BY <1>1, <1>4, <1>7, <1>8 DEF SeenInv

LEMMA NextSeen == LoopInv /\ Books /\ SeenInv /\ [Next]_vars => SeenInv'
<1> SUFFICES ASSUME LoopInv, Books, SeenInv, [Next]_vars PROVE SeenInv'
  OBVIOUS
<1> USE DEF ShownAccepted, ShownRejected, ShownCompleted, ShownFailed, Shown
<1>1. CASE UNCHANGED vars
  BY <1>1 DEF vars, queue, SeenInv
<1>2. CASE NewSnapshot
  <2>1. seen' = <<>> /\ UNCHANGED <<accepted, rejected, completed, failed>>
    BY <1>2 DEF NewSnapshot, queue
  <2> QED
    BY <2>1 DEF SeenInv, LoopInv, Counters
<1> QED
  BY <1>1, <1>2, EventLoopSeen, ReadFieldSeen DEF Next

(***************************************************************************)
(* A snapshot read without a lock, whenever its reads fall, hides at most  *)
(* one request that had arrived from accepted and rejected, and one that   *)
(* was accepted from completed and failed.                                 *)
(***************************************************************************)
THEOREM MetricsHideAtMostOne == Spec => []SnapshotHidesAtMostOne
<1>1. SeenInv => SnapshotHidesAtMostOne
  BY DEF SeenInv, SnapshotHidesAtMostOne, SnapshotDone, Fields,
         ShownAccepted, ShownRejected, ShownCompleted, ShownFailed, Shown
<1> QED
  BY <1>1, InitLoopInv, NextLoopInv, InitSeen, NextBooks, NextSeen, PTL DEF Spec

\* The parts of the type invariant that the others do not need.
Shape ==
  /\ current \in Requests \cup {NoOne}
  /\ loop \in [at : Places, req : Requests \cup {NoOne},
               how : {"none", "succeeded", "failed", "late"}]

LEMMA NextShape == LoopInv /\ Shape /\ [Next]_vars => Shape'
<1> SUFFICES ASSUME LoopInv, Shape, [Next]_vars PROVE Shape'
  OBVIOUS
<1> USE DEF Shape, Places, Idle
<1>1. CASE UNCHANGED <<queue, loop>>
  BY <1>1 DEF queue
<1>2. ASSUME NEW r \in Requests, CountRequest(r) \/ CountTimeout(r) PROVE Shape'
  BY <1>2 DEF CountRequest, CountTimeout
<1>3. ASSUME NEW r \in Requests, NEW how \in {"succeeded", "failed", "late"},
             CountEnd(r, how)
      PROVE  Shape'
  BY <1>3 DEF CountEnd
<1>4. CASE Refuse \/ FreeLock
  BY <1>4 DEF Refuse, FreeLock
<1>5. CASE TakeLock
  BY <1>5 DEF TakeLock
<1>6. CASE CountAccepted
  BY <1>6 DEF CountAccepted, LoopInv
<1> QED
  BY <1>1, <1>2, <1>3, <1>4, <1>5, <1>6
     DEF Next, EventLoop, ReadField, NewSnapshot, vars, queue

(***************************************************************************)
(* Every state of the queue and of a snapshot under way is well typed: a   *)
(* snapshot never has more fields than snapshot() reads.                   *)
(***************************************************************************)
THEOREM MetricsTypeOK == Spec => []TypeOK
<1>1. Init => Shape
  BY DEF Init, Shape, Places, Idle
<1>2. LoopInv /\ SeenInv /\ Shape => TypeOK
  BY DEF LoopInv, Counters, SeenInv, Shape, TypeOK, Fields
<1> QED
  BY <1>1, <1>2, InitLoopInv, NextLoopInv, InitSeen, NextBooks, NextSeen, NextShape, PTL
     DEF Spec
=============================================================================
