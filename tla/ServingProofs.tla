---------------------------- MODULE ServingProofs ----------------------------
(***************************************************************************)
(* Theorems about the serving process, for every set of requests and every *)
(* choice of faults.                                                       *)
(*                                                                         *)
(* The handlers touch the guard and the queues through their methods only, *)
(* so each step of the process is a step of each of them or leaves it      *)
(* alone.  What is proved of the guard in a module of its own, and of the  *)
(* queues here first, then holds of them inside the process.               *)
(***************************************************************************)
EXTENDS Serving, FiniteSetTheorems, TLAPS

\* The theorems about the guard.
GuardThm == INSTANCE NPUResourceGuardProofs

(* The LLM queue: every method is one callback of the event loop. *)

\* The inductive invariant.  The counters need the lock, to tell whether an
\* accepted request is still in; the lock needs the types and nothing else.
LLMInv == LLM!TypeOK /\ LLM!LockMatchesLease /\ LLM!CountersAddUp

LEMMA InitLLMInv == LLM!Init => LLMInv
<1> SUFFICES ASSUME LLM!Init PROVE LLMInv
  OBVIOUS
<1>1. LLM!TypeOK
  BY DEF LLM!Init, LLM!TypeOK, LLM!LeaseStatus
<1>2. LLM!Holders = {}
  BY DEF LLM!Init, LLM!Holders, LLM!WithLease
<1> QED
  BY <1>1, <1>2 DEF LLM!Init, LLMInv, LLM!LockMatchesLease, LLM!CountersAddUp

\* A refused request holds nothing.
LEMMA LLMRejects ==
  ASSUME LLMInv, NEW r \in Requests, LLM!RejectBusy(r)
  PROVE  LLMInv'
<1>1. LLM!TypeOK'
  BY DEF LLMInv, LLM!TypeOK, LLM!RejectBusy, LLM!LeaseStatus
<1>2. LLM!Holders' = LLM!Holders
  BY DEF LLMInv, LLM!TypeOK, LLM!RejectBusy, LLM!Holders, LLM!WithLease
<1> QED
  BY <1>1, <1>2
     DEF LLMInv, LLM!TypeOK, LLM!LockMatchesLease, LLM!CountersAddUp, LLM!RejectBusy

\* An accepted request becomes the only holder: there was none.
LEMMA LLMAccepts ==
  ASSUME LLMInv, NEW r \in Requests, LLM!Accept(r)
  PROVE  LLMInv'
<1>1. LLM!Holders = {}
  BY DEF LLMInv, LLM!LockMatchesLease, LLM!Accept
<1>2. LLM!Holders' = {r}
  BY <1>1 DEF LLMInv, LLM!TypeOK, LLM!Accept, LLM!Holders, LLM!WithLease
<1>3. LLM!TypeOK'
  BY DEF LLMInv, LLM!TypeOK, LLM!Accept, LLM!LeaseStatus
<1> QED
  BY <1>2, <1>3
     DEF LLMInv, LLM!TypeOK, LLM!LockMatchesLease, LLM!CountersAddUp, LLM!Accept

\* The first finish of a live lease frees the lock, which is its own.
LEMMA LLMRecords ==
  ASSUME LLMInv, NEW r \in Requests, NEW how \in {"succeeded", "failed"},
         llmLease[r] = "live", LLM!Record(r, how),
         \/ llmTimeouts' = llmTimeouts
         \/ how = "failed" /\ llmTimeouts' = llmTimeouts + 1
  PROVE  LLMInv'
<1>1. llmLocked /\ LLM!Holders = {r}
  BY DEF LLMInv, LLM!LockMatchesLease, LLM!Holders, LLM!WithLease
<1>2. LLM!Holders' = {}
  BY <1>1 DEF LLMInv, LLM!TypeOK, LLM!Record, LLM!Holders, LLM!WithLease
<1>3. LLM!TypeOK'
  <2>1. llmCompleted' \in Nat /\ llmFailed' \in Nat /\ llmTimeouts' \in Nat
    BY DEF LLMInv, LLM!TypeOK, LLM!Record
  <2>2. llmLease' \in [Requests -> LLM!LeaseStatus]
    BY DEF LLMInv, LLM!TypeOK, LLM!LeaseStatus, LLM!Record
  <2> QED
    BY <2>1, <2>2 DEF LLMInv, LLM!TypeOK, LLM!Record
<1> QED
  BY <1>1, <1>2, <1>3
     DEF LLMInv, LLM!TypeOK, LLM!LockMatchesLease, LLM!CountersAddUp, LLM!Record

LEMMA NextLLMInv == LLMInv /\ [LLM!Next]_(LLM!vars) => LLMInv'
<1> SUFFICES ASSUME LLMInv, [LLM!Next]_(LLM!vars) PROVE LLMInv'
  OBVIOUS
<1>1. CASE UNCHANGED LLM!vars
  <2>1. LLM!Holders' = LLM!Holders
    BY <1>1 DEF LLM!Holders, LLM!WithLease, LLM!vars
  <2> QED
    BY <1>1, <2>1
       DEF LLMInv, LLM!TypeOK, LLM!LockMatchesLease, LLM!CountersAddUp, LLM!vars
<1>2. ASSUME NEW r \in Requests, NEW how \in {"succeeded", "failed"}, LLM!Finish(r, how)
      PROVE  LLMInv'
  <2>1. CASE LLM!Released(r)
    BY <1>1, <1>2, <2>1 DEF LLM!Finish
  <2>2. CASE ~LLM!Released(r)
    BY <1>2, <2>2, LLMRecords DEF LLM!Finish, LLM!Released
  <2> QED
    BY <2>1, <2>2
<1>3. ASSUME NEW r \in Requests, LLM!TimeoutFinish(r) PROVE LLMInv'
  BY <1>3, LLMRecords DEF LLM!TimeoutFinish
<1> QED
  BY <1>1, <1>2, <1>3, LLMRejects, LLMAccepts DEF LLM!Next

(***************************************************************************)
(* Every reachable state of the LLM queue is well typed, for any set of    *)
(* requests: no counter is taken below zero, no lease is lost.             *)
(***************************************************************************)
THEOREM LLMQueueTypeOK == LLM!Spec => []LLM!TypeOK
<1>1. LLMInv => LLM!TypeOK
  BY DEF LLMInv
<1> QED
  BY <1>1, InitLLMInv, NextLLMInv, PTL DEF LLM!Spec

(***************************************************************************)
(* The asyncio lock is taken exactly while one lease is live, although     *)
(* the finally clause of a stream finishes its lease a second time.        *)
(***************************************************************************)
THEOREM LLMQueueLockMatchesLease == LLM!Spec => []LLM!LockMatchesLease
<1>1. LLMInv => LLM!LockMatchesLease
  BY DEF LLMInv
<1> QED
  BY <1>1, InitLLMInv, NextLLMInv, PTL DEF LLM!Spec

(***************************************************************************)
(* Between two callbacks of the event loop the counters add up, and each   *)
(* timeout is also counted as a failure.                                   *)
(***************************************************************************)
THEOREM LLMQueueCountersAddUp == LLM!Spec => []LLM!CountersAddUp
<1>1. LLMInv => LLM!CountersAddUp
  BY DEF LLMInv
<1> QED
  BY <1>1, InitLLMInv, NextLLMInv, PTL DEF LLM!Spec
-----------------------------------------------------------------------------
LEMMA InitLLMSlot == LLM!Init => LLM!Slot!Init
BY DEF LLM!Init, LLM!Slot!Init, LLM!Holders, LLM!WithLease

\* The first finish of a lease is the holder leaving the slot.
LEMMA LLMLeaves ==
  ASSUME LLMInv, NEW r \in Requests, NEW how \in {"succeeded", "failed"},
         llmLease[r] = "live", LLM!Record(r, how)
  PROVE  LLM!Slot!Leave(r)
BY DEF LLMInv, LLM!TypeOK, LLM!LeaseStatus, LLM!Record, LLM!Slot!Leave, LLM!Holders,
       LLM!WithLease

LEMMA NextLLMSlot == LLMInv /\ [LLM!Next]_(LLM!vars) => [LLM!Slot!Next]_(LLM!Slot!vars)
<1> SUFFICES ASSUME LLMInv, [LLM!Next]_(LLM!vars) PROVE [LLM!Slot!Next]_(LLM!Slot!vars)
  OBVIOUS
<1> USE DEF LLMInv, LLM!TypeOK, LLM!Holders, LLM!WithLease, LLM!LeaseStatus
<1>1. CASE UNCHANGED LLM!vars
  BY <1>1 DEF LLM!vars, LLM!Slot!vars
<1>2. ASSUME NEW r \in Requests, LLM!RejectBusy(r) PROVE LLM!Slot!TurnAway(r)
  <2>1. LLM!Holders # {}
    BY <1>2 DEF LLM!RejectBusy, LLM!LockMatchesLease
  <2>2. LLM!Slot!New(r)
    BY <1>2 DEF LLM!RejectBusy, LLM!Slot!New
  <2> QED
    BY <1>2, <2>1, <2>2 DEF LLM!RejectBusy, LLM!Slot!TurnAway
<1>3. ASSUME NEW r \in Requests, LLM!Accept(r) PROVE LLM!Slot!Enter(r)
  <2>1. LLM!Holders = {}
    BY <1>3 DEF LLM!Accept, LLM!LockMatchesLease
  <2>2. LLM!Slot!New(r)
    BY <1>3 DEF LLM!Accept, LLM!Slot!New
  <2> QED
    BY <1>3, <2>1, <2>2 DEF LLM!Accept, LLM!Slot!Enter
<1>4. ASSUME NEW r \in Requests, NEW how \in {"succeeded", "failed"}, LLM!Finish(r, how)
      PROVE  UNCHANGED LLM!Slot!vars \/ LLM!Slot!Leave(r)
  <2>1. CASE LLM!Released(r)
    BY <1>4, <2>1 DEF LLM!Finish, LLM!vars, LLM!Slot!vars
  <2>2. CASE ~LLM!Released(r)
    BY <1>4, <2>2, LLMLeaves DEF LLM!Finish, LLM!Released
  <2> QED
    BY <2>1, <2>2
<1>5. ASSUME NEW r \in Requests, LLM!TimeoutFinish(r) PROVE LLM!Slot!Leave(r)
  BY <1>5, LLMLeaves DEF LLM!TimeoutFinish
<1> QED
  BY <1>1, <1>2, <1>3, <1>4, <1>5 DEF LLM!Next, LLM!Slot!Next

(***************************************************************************)
(* The LLM queue is an exclusive slot: a chat request is refused only      *)
(* while another is generating, and each lease is given back at most once. *)
(***************************************************************************)
THEOREM LLMQueueImplementsSlot == LLM!Spec => LLM!SlotSpec
BY InitLLMInv, NextLLMInv, InitLLMSlot, NextLLMSlot, PTL
   DEF LLM!Spec, LLM!SlotSpec, LLM!Slot!Spec
-----------------------------------------------------------------------------
(***************************************************************************)
(* The vision queue: threads may stand still between counting a timeout,   *)
(* setting the flag of a lease and recording its end; all that time the    *)
(* request is a holder.                                                    *)
(***************************************************************************)

\* The inductive invariant.  Vis!SnapshotAddsUp needs the lock to be the one of
\* the request that records its end.
VisInv == Vis!TypeOK /\ Vis!LockMatchesLease /\ Vis!SnapshotAddsUp

LEMMA InitVisInv == Vis!Init => VisInv
<1> SUFFICES ASSUME Vis!Init PROVE VisInv
  OBVIOUS
<1>1. Vis!TypeOK
  BY DEF Vis!Init, Vis!TypeOK, Vis!LeaseStatus
<1>2. Vis!Holders = {}
  BY DEF Vis!Init, Vis!Holders, Vis!WithLease
<1> QED
  BY <1>1, <1>2 DEF Vis!Init, VisInv, Vis!LockMatchesLease, Vis!SnapshotAddsUp

\* A refused request holds nothing.
LEMMA VisRejects ==
  ASSUME VisInv, NEW r \in Requests, Vis!RejectBusy(r)
  PROVE  VisInv'
<1>1. Vis!TypeOK'
  BY DEF VisInv, Vis!TypeOK, Vis!RejectBusy, Vis!LeaseStatus
<1>2. Vis!Holders' = Vis!Holders
  BY DEF VisInv, Vis!TypeOK, Vis!RejectBusy, Vis!Holders, Vis!WithLease
<1> QED
  BY <1>1, <1>2
     DEF VisInv, Vis!TypeOK, Vis!LockMatchesLease, Vis!SnapshotAddsUp, Vis!RejectBusy

\* An accepted request becomes the only holder: there was none.
LEMMA VisAccepts ==
  ASSUME VisInv, NEW r \in Requests, Vis!Accept(r)
  PROVE  VisInv'
<1>1. Vis!TypeOK'
  BY DEF VisInv, Vis!TypeOK, Vis!Accept, Vis!LeaseStatus
<1>2. Vis!Holders = {}
  BY DEF VisInv, Vis!LockMatchesLease, Vis!Accept
<1>3. Vis!Holders' = {r}
  BY <1>2 DEF VisInv, Vis!TypeOK, Vis!Accept, Vis!Holders, Vis!WithLease
<1> QED
  BY <1>1, <1>3
     DEF VisInv, Vis!TypeOK, Vis!LockMatchesLease, Vis!SnapshotAddsUp, Vis!Accept

\* Neither a counted timeout nor the released flag lets anybody else in.
LEMMA VisCountsTimeout ==
  ASSUME VisInv, NEW r \in Requests, Vis!CountTimeout(r)
  PROVE  VisInv'
<1>1. Vis!TypeOK'
  BY DEF VisInv, Vis!TypeOK, Vis!CountTimeout, Vis!LeaseStatus
<1>2. Vis!Holders' = Vis!Holders
  BY DEF VisInv, Vis!TypeOK, Vis!CountTimeout, Vis!Holders, Vis!WithLease
<1> QED
  BY <1>1, <1>2 DEF VisInv, Vis!LockMatchesLease, Vis!SnapshotAddsUp, Vis!CountTimeout

LEMMA VisEntersFinish ==
  ASSUME VisInv, NEW r \in Requests, NEW how \in {"succeeding", "failing"},
         Vis!EnterFinish(r, how)
  PROVE  VisInv'
<1>1. Vis!TypeOK'
  BY DEF VisInv, Vis!TypeOK, Vis!EnterFinish, Vis!LeaseStatus, Vis!counters
<1>2. Vis!Holders' = Vis!Holders
  BY DEF VisInv, Vis!TypeOK, Vis!EnterFinish, Vis!Holders, Vis!WithLease
<1> QED
  BY <1>1, <1>2
     DEF VisInv, Vis!LockMatchesLease, Vis!SnapshotAddsUp, Vis!EnterFinish, Vis!counters

\* Recording the end empties the slot: the request that records was in it.
LEMMA VisCommitsFinish ==
  ASSUME VisInv, NEW r \in Requests, Vis!CommitFinish(r)
  PROVE  VisInv'
<1>1. Vis!TypeOK'
  <2>1. visCompleted' \in Nat /\ visFailed' \in Nat
    BY DEF VisInv, Vis!TypeOK, Vis!CommitFinish
  <2>2. visLease' \in [Requests -> Vis!LeaseStatus]
    BY DEF VisInv, Vis!TypeOK, Vis!CommitFinish, Vis!LeaseStatus
  <2> QED
    BY <2>1, <2>2 DEF VisInv, Vis!TypeOK, Vis!CommitFinish
<1>2. visLocked /\ Vis!Holders = {r}
  BY DEF VisInv, Vis!LockMatchesLease, Vis!CommitFinish, Vis!Holders, Vis!WithLease
<1>3. Vis!Holders' = {}
  BY <1>2 DEF VisInv, Vis!TypeOK, Vis!CommitFinish, Vis!Holders, Vis!WithLease
<1>4. Vis!SnapshotAddsUp'
  BY <1>2 DEF VisInv, Vis!TypeOK, Vis!SnapshotAddsUp, Vis!CommitFinish
<1> QED
  BY <1>1, <1>3, <1>4 DEF VisInv, Vis!LockMatchesLease, Vis!CommitFinish

LEMMA VisStutters == VisInv /\ UNCHANGED Vis!vars => VisInv'
<1> SUFFICES ASSUME VisInv, UNCHANGED Vis!vars PROVE VisInv'
  OBVIOUS
<1>1. Vis!Holders' = Vis!Holders
  BY DEF Vis!Holders, Vis!WithLease, Vis!vars
<1> QED
  BY <1>1 DEF VisInv, Vis!TypeOK, Vis!LockMatchesLease, Vis!SnapshotAddsUp, Vis!vars

LEMMA NextVisInv == VisInv /\ [Vis!Next]_(Vis!vars) => VisInv'
<1> SUFFICES ASSUME VisInv, [Vis!Next]_(Vis!vars) PROVE VisInv'
  OBVIOUS
<1>1. CASE UNCHANGED Vis!vars
  BY <1>1, VisStutters
<1>2. CASE Vis!Next
  BY <1>2, VisRejects, VisAccepts, VisCountsTimeout, VisEntersFinish, VisCommitsFinish
     DEF Vis!Next
<1> QED
  BY <1>1, <1>2

(***************************************************************************)
(* Every reachable state of the vision queue is well typed, for any set of *)
(* requests: no counter is taken below zero, no lease is lost.             *)
(***************************************************************************)
THEOREM VisionQueueTypeOK == Vis!Spec => []Vis!TypeOK
<1>1. VisInv => Vis!TypeOK
  BY DEF VisInv
<1> QED
  BY <1>1, InitVisInv, NextVisInv, PTL DEF Vis!Spec

(***************************************************************************)
(* The lock is taken exactly while one thread is between acquire_nowait    *)
(* and the end of _finish_lease, also while it records a timeout.          *)
(***************************************************************************)
THEOREM VisionQueueLockMatchesLease == Vis!Spec => []Vis!LockMatchesLease
<1>1. VisInv => Vis!LockMatchesLease
  BY DEF VisInv
<1> QED
  BY <1>1, InitVisInv, NextVisInv, PTL DEF Vis!Spec

(***************************************************************************)
(* Every snapshot taken under _stats_lock adds up, for any number of       *)
(* threads in run_nowait.                                                  *)
(***************************************************************************)
THEOREM VisionQueueSnapshotAddsUp == Vis!Spec => []Vis!SnapshotAddsUp
<1>1. VisInv => Vis!SnapshotAddsUp
  BY DEF VisInv
<1> QED
  BY <1>1, InitVisInv, NextVisInv, PTL DEF Vis!Spec
-----------------------------------------------------------------------------
\* The requests whose timeout may have been counted and whose failure is not.
Ending == Vis!WithLease({"late", "failing"})

LEMMA NoneOrOne ==
  /\ Vis!Cardinality({}) = 0
  /\ \A r : Vis!Cardinality({r}) = 1
<1>1. \A S : Vis!Cardinality(S) = Cardinality(S)
  BY DEF Vis!Cardinality, Cardinality
<1> QED
  BY <1>1, FS_EmptySet, FS_Singleton

LEMMA NextTimeouts ==
  VisInv /\ Vis!TimeoutsAreFailures /\ [Vis!Next]_(Vis!vars) => Vis!TimeoutsAreFailures'
<1> SUFFICES ASSUME VisInv, Vis!TimeoutsAreFailures, [Vis!Next]_(Vis!vars)
             PROVE Vis!TimeoutsAreFailures'
  OBVIOUS
<1>1. visTimeouts \in Nat /\ visFailed \in Nat /\ visTimeouts <= visFailed + Vis!Cardinality(Ending)
  BY DEF VisInv, Vis!TypeOK, Vis!TimeoutsAreFailures, Ending
<1>2. SUFFICES visTimeouts' <= visFailed' + Vis!Cardinality(Ending')
  BY DEF Vis!TimeoutsAreFailures, Ending
<1>3. CASE UNCHANGED Vis!vars
  <2>1. Ending' = Ending
    BY <1>3 DEF Vis!vars, Ending, Vis!WithLease
  <2> QED
    BY <1>1, <1>3, <2>1 DEF Vis!vars
<1>4. ASSUME NEW r \in Requests, Vis!RejectBusy(r) \/ Vis!Accept(r)
      PROVE  visTimeouts' <= visFailed' + Vis!Cardinality(Ending')
  <2>1. Ending' = Ending
    BY <1>4 DEF VisInv, Vis!TypeOK, Vis!RejectBusy, Vis!Accept, Ending, Vis!WithLease
  <2> QED
    BY <1>1, <1>4, <2>1 DEF Vis!RejectBusy, Vis!Accept
<1>5. ASSUME NEW r \in Requests, Vis!CountTimeout(r)
      PROVE  visTimeouts' <= visFailed' + Vis!Cardinality(Ending')
  <2>1. Vis!Holders = {r}
    BY <1>5 DEF VisInv, Vis!LockMatchesLease, Vis!CountTimeout, Vis!Holders, Vis!WithLease
  <2>2. Ending = {} /\ Ending' = {r}
    BY <1>5, <2>1
       DEF VisInv, Vis!TypeOK, Vis!CountTimeout, Ending, Vis!Holders, Vis!WithLease
  <2>3. Vis!Cardinality(Ending) = 0 /\ Vis!Cardinality(Ending') = 1
    BY <2>2, NoneOrOne
  <2> QED
    BY <1>1, <1>5, <2>3 DEF Vis!CountTimeout
<1>6. ASSUME NEW r \in Requests, NEW how \in {"succeeding", "failing"}, Vis!EnterFinish(r, how)
      PROVE  visTimeouts' <= visFailed' + Vis!Cardinality(Ending')
  <2>1. Vis!Holders = {r}
    BY <1>6 DEF VisInv, Vis!LockMatchesLease, Vis!EnterFinish, Vis!Holders, Vis!WithLease
  <2>2. (Ending = {r} /\ Ending' = {r}) \/ Ending = {}
    BY <1>6, <2>1
       DEF VisInv, Vis!TypeOK, Vis!EnterFinish, Ending, Vis!Holders, Vis!WithLease
  <2>3. Ending' = {} \/ Ending' = {r}
    BY <1>6, <2>1
       DEF VisInv, Vis!TypeOK, Vis!EnterFinish, Ending, Vis!Holders, Vis!WithLease
  <2>4. /\ Vis!Cardinality(Ending) \in {0, 1} /\ Vis!Cardinality(Ending') \in {0, 1}
        /\ Vis!Cardinality(Ending) = 1 => Vis!Cardinality(Ending') = 1
    BY <2>2, <2>3, NoneOrOne
  <2>5. visTimeouts' = visTimeouts /\ visFailed' = visFailed
    BY <1>6 DEF Vis!EnterFinish, Vis!counters
  <2> QED
    BY <1>1, <2>4, <2>5
<1>7. ASSUME NEW r \in Requests, Vis!CommitFinish(r)
      PROVE  visTimeouts' <= visFailed' + Vis!Cardinality(Ending')
  <2>1. Vis!Holders = {r}
    BY <1>7 DEF VisInv, Vis!LockMatchesLease, Vis!CommitFinish, Vis!Holders, Vis!WithLease
  <2>2. Ending' = {}
    BY <1>7, <2>1
       DEF VisInv, Vis!TypeOK, Vis!CommitFinish, Ending, Vis!Holders, Vis!WithLease
  <2>3. CASE visLease[r] = "succeeding"
    <3>1. Ending = {}
      BY <2>1, <2>3 DEF Ending, Vis!Holders, Vis!WithLease
    <3> QED
      BY <1>1, <1>7, <2>2, <2>3, <3>1, NoneOrOne DEF Vis!CommitFinish
  <2>4. CASE visLease[r] = "failing"
    <3>1. Ending = {r}
      BY <2>1, <2>4 DEF Ending, Vis!Holders, Vis!WithLease
    <3>2. Vis!Cardinality(Ending) = 1 /\ Vis!Cardinality(Ending') = 0
      BY <2>2, <3>1, NoneOrOne
    <3> QED
      BY <1>1, <1>7, <2>4, <3>2 DEF Vis!CommitFinish
  <2> QED
    BY <1>7, <2>3, <2>4 DEF Vis!CommitFinish
<1> QED
  BY <1>3, <1>4, <1>5, <1>6, <1>7 DEF Vis!Next

(***************************************************************************)
(* Each timeout is also a failure: timeout_requests is ahead of            *)
(* failed_requests by the one request that has not recorded its end.       *)
(***************************************************************************)
THEOREM VisionQueueTimeoutsAreFailures == Vis!Spec => []Vis!TimeoutsAreFailures
<1>1. Vis!Init => Vis!TimeoutsAreFailures
  <2>1. Vis!Init => Vis!WithLease({"late", "failing"}) = {}
    BY DEF Vis!Init, Vis!WithLease
  <2> QED
    BY <2>1, NoneOrOne DEF Vis!Init, Vis!TimeoutsAreFailures
<1> QED
  BY <1>1, InitVisInv, NextVisInv, NextTimeouts, PTL DEF Vis!Spec
-----------------------------------------------------------------------------
LEMMA InitVisSlot == Vis!Init => Vis!Slot!Init
BY DEF Vis!Init, Vis!Slot!Init, Vis!Holders, Vis!WithLease

LEMMA NextVisSlot == VisInv /\ [Vis!Next]_(Vis!vars) => [Vis!Slot!Next]_(Vis!Slot!vars)
<1> SUFFICES ASSUME VisInv, [Vis!Next]_(Vis!vars) PROVE [Vis!Slot!Next]_(Vis!Slot!vars)
  OBVIOUS
<1> USE DEF VisInv, Vis!TypeOK, Vis!Holders, Vis!WithLease, Vis!LeaseStatus
<1>1. CASE UNCHANGED Vis!vars
  BY <1>1 DEF Vis!vars, Vis!Slot!vars
<1>2. ASSUME NEW r \in Requests, Vis!RejectBusy(r) PROVE Vis!Slot!TurnAway(r)
  <2>1. Vis!Holders # {}
    BY <1>2 DEF Vis!RejectBusy, Vis!LockMatchesLease
  <2>2. Vis!Slot!New(r)
    BY <1>2 DEF Vis!RejectBusy, Vis!Slot!New
  <2> QED
    BY <1>2, <2>1, <2>2 DEF Vis!RejectBusy, Vis!Slot!TurnAway
<1>3. ASSUME NEW r \in Requests, Vis!Accept(r) PROVE Vis!Slot!Enter(r)
  <2>1. Vis!Holders = {}
    BY <1>3 DEF Vis!Accept, Vis!LockMatchesLease
  <2>2. Vis!Slot!New(r)
    BY <1>3 DEF Vis!Accept, Vis!Slot!New
  <2> QED
    BY <1>3, <2>1, <2>2 DEF Vis!Accept, Vis!Slot!Enter
<1>4. ASSUME NEW r \in Requests, Vis!CountTimeout(r) PROVE UNCHANGED Vis!Slot!vars
  BY <1>4 DEF Vis!CountTimeout, Vis!Slot!vars
<1>5. ASSUME NEW r \in Requests, NEW how \in {"succeeding", "failing"}, Vis!EnterFinish(r, how)
      PROVE  UNCHANGED Vis!Slot!vars
  BY <1>5 DEF Vis!EnterFinish, Vis!Slot!vars
<1>6. ASSUME NEW r \in Requests, Vis!CommitFinish(r) PROVE Vis!Slot!Leave(r)
  BY <1>6 DEF Vis!CommitFinish, Vis!Slot!Leave
<1> QED
  BY <1>1, <1>2, <1>3, <1>4, <1>5, <1>6 DEF Vis!Next, Vis!Slot!Next

(***************************************************************************)
(* The vision queue is an exclusive slot: a request is refused only while  *)
(* another is in run_nowait, and leaves it once.                           *)
(***************************************************************************)
THEOREM VisionQueueImplementsSlot == Vis!Spec => Vis!SlotSpec
BY InitVisInv, NextVisInv, InitVisSlot, NextVisSlot, PTL
   DEF Vis!Spec, Vis!SlotSpec, Vis!Slot!Spec
-----------------------------------------------------------------------------
(* The steps of the process. *)

LEMMA InitLocks == Init => Guard!Init /\ LLM!Init /\ Vis!Init
BY DEF Init

\* A worker process knows nothing of leases.
LEMMA WorkerSteps ==
  ASSUME NEW e \in Engines, Worker(e)
  PROVE  UNCHANGED untouched
BY DEF Worker, TakePrompt, WriteReply

\* Nor does a backend thread.
LEMMA CallSteps ==
  ASSUME NEW r \in Requests, Call(r)
  PROVE  UNCHANGED untouched
BY DEF Call, CallEnds, BeginCall, Reply, BadReply, EndCall, WorkerExits, WorkerTimeout,
       YieldDelta, CloseAbandoned

LEMMA GuardSteps == [Next]_vars => [Guard!Next]_(Guard!vars)
<1> SUFFICES ASSUME [Next]_vars PROVE [Guard!Next]_(Guard!vars)
  OBVIOUS
<1> USE DEF Guard!vars, guardVars
<1>1. CASE UNCHANGED vars
  BY <1>1 DEF vars
<1>2. ASSUME NEW r \in Requests, Handler(r) PROVE [Guard!Next]_(Guard!vars)
  BY <1>2 DEF Handler, Arrive, EnterGuard, Pull, BackendReturned, CommitGuard, Leave,
              OuterTimeout, Disconnect, Guard!Next
<1>3. ASSUME NEW r \in Requests, Call(r) PROVE UNCHANGED Guard!vars
  BY <1>3, CallSteps DEF untouched
<1>4. ASSUME NEW e \in Engines, Worker(e) PROVE UNCHANGED Guard!vars
  BY <1>4, WorkerSteps DEF untouched
<1> QED
  BY <1>1, <1>2, <1>3, <1>4 DEF Next

LEMMA LLMSteps == [Next]_vars => [LLM!Next]_(LLM!vars)
<1> SUFFICES ASSUME [Next]_vars PROVE [LLM!Next]_(LLM!vars)
  OBVIOUS
<1> USE DEF LLM!vars, llmVars
<1>1. CASE UNCHANGED vars
  BY <1>1 DEF vars
<1>2. ASSUME NEW r \in Requests, Handler(r) PROVE [LLM!Next]_(LLM!vars)
  BY <1>2 DEF Handler, Arrive, EnterGuard, Pull, BackendReturned, CommitGuard, Leave,
              LeaveLLMQueue, LeaveVisionQueue, OuterTimeout, Disconnect, LLM!Next
<1>3. ASSUME NEW r \in Requests, Call(r) PROVE UNCHANGED LLM!vars
  BY <1>3, CallSteps DEF untouched
<1>4. ASSUME NEW e \in Engines, Worker(e) PROVE UNCHANGED LLM!vars
  BY <1>4, WorkerSteps DEF untouched
<1> QED
  BY <1>1, <1>2, <1>3, <1>4 DEF Next

LEMMA VisSteps == [Next]_vars => [Vis!Next]_(Vis!vars)
<1> SUFFICES ASSUME [Next]_vars PROVE [Vis!Next]_(Vis!vars)
  OBVIOUS
<1> USE DEF Vis!vars, visVars
<1>1. CASE UNCHANGED vars
  BY <1>1 DEF vars
<1>2. ASSUME NEW r \in Requests, Handler(r) PROVE [Vis!Next]_(Vis!vars)
  BY <1>2 DEF Handler, Arrive, EnterGuard, Pull, BackendReturned, CommitGuard, Leave,
              LeaveLLMQueue, LeaveVisionQueue, OuterTimeout, Disconnect, Vis!Next
<1>3. ASSUME NEW r \in Requests, Call(r) PROVE UNCHANGED Vis!vars
  BY <1>3, CallSteps DEF untouched
<1>4. ASSUME NEW e \in Engines, Worker(e) PROVE UNCHANGED Vis!vars
  BY <1>4, WorkerSteps DEF untouched
<1> QED
  BY <1>1, <1>2, <1>3, <1>4 DEF Next

(***************************************************************************)
(* The process drives each component as the component's own module says    *)
(* it is driven: no handler reaches around acquire_nowait, run_nowait and  *)
(* _finish_lease, whatever fails.                                          *)
(***************************************************************************)
THEOREM ServingDrivesLocks == Spec => Guard!Spec /\ LLM!Spec /\ Vis!Spec
BY InitLocks, GuardSteps, LLMSteps, VisSteps, PTL DEF Spec, Guard!Spec, LLM!Spec, Vis!Spec
-----------------------------------------------------------------------------
(***************************************************************************)
(* The guard's module is instantiated twice, by Serving and with its       *)
(* theorems: the two instances say the same.                               *)
(***************************************************************************)
LEMMA SameGuard ==
  /\ Guard!Init <=> GuardThm!Init
  /\ [Guard!Next]_(Guard!vars) <=> [GuardThm!Next]_(GuardThm!vars)
<1>1. Guard!Init <=> GuardThm!Init
  BY DEF Guard!Init, GuardThm!Init
<1>2. Guard!Next <=> GuardThm!Next
  BY DEF Guard!Next, GuardThm!Next, Guard!RejectBusy, GuardThm!RejectBusy,
         Guard!Accept, GuardThm!Accept, Guard!EnterFinish, GuardThm!EnterFinish,
         Guard!CommitFinish, GuardThm!CommitFinish, Guard!Released, GuardThm!Released,
         Guard!vars, GuardThm!vars
<1>3. UNCHANGED Guard!vars <=> UNCHANGED GuardThm!vars
  BY DEF Guard!vars, GuardThm!vars
<1> QED
  BY <1>1, <1>2, <1>3

LEMMA SameGuardSlot ==
  /\ Guard!Slot!Init <=> GuardThm!Slot!Init
  /\ [Guard!Slot!Next]_(Guard!Slot!vars) <=> [GuardThm!Slot!Next]_(GuardThm!Slot!vars)
<1> USE DEF Guard!Holders, GuardThm!Holders, Guard!WithLease, GuardThm!WithLease
<1>1. Guard!Slot!Init <=> GuardThm!Slot!Init
  BY DEF Guard!Slot!Init, GuardThm!Slot!Init
<1>2. ASSUME NEW r \in Requests
      PROVE  /\ Guard!Slot!Enter(r) <=> GuardThm!Slot!Enter(r)
             /\ Guard!Slot!TurnAway(r) <=> GuardThm!Slot!TurnAway(r)
             /\ Guard!Slot!Leave(r) <=> GuardThm!Slot!Leave(r)
  BY DEF Guard!Slot!Enter, GuardThm!Slot!Enter, Guard!Slot!TurnAway, GuardThm!Slot!TurnAway,
         Guard!Slot!Leave, GuardThm!Slot!Leave, Guard!Slot!New, GuardThm!Slot!New
<1>3. UNCHANGED Guard!Slot!vars <=> UNCHANGED GuardThm!Slot!vars
  BY DEF Guard!Slot!vars, GuardThm!Slot!vars
<1>4. Guard!Slot!Next <=> GuardThm!Slot!Next
  BY <1>2 DEF Guard!Slot!Next, GuardThm!Slot!Next
<1> QED
  BY <1>1, <1>3, <1>4

-----------------------------------------------------------------------------
(***************************************************************************)
(* Inside the process, with all its faults, the guard and both queues are  *)
(* exclusive slots: entered only when empty, refused only when full, and   *)
(* left once.                                                              *)
(***************************************************************************)
THEOREM ServingLocksAreSlots == Spec => LocksAreSlots
<1>1. Guard!Spec => Guard!SlotSpec
  <2>1. GuardThm!Spec => GuardThm!SlotSpec
    BY GuardThm!GuardImplementsSlot, NoOneAssumption
       DEF NoOneAssumption, GuardThm!NoOneAssumption
  <2> QED
    BY <2>1, SameGuard, SameGuardSlot, PTL
       DEF Guard!Spec, GuardThm!Spec, Guard!SlotSpec, GuardThm!SlotSpec,
           Guard!Slot!Spec, GuardThm!Slot!Spec
<1> QED
  BY <1>1, LLMQueueImplementsSlot, VisionQueueImplementsSlot, ServingDrivesLocks, PTL DEF LocksAreSlots

(***************************************************************************)
(* The books of both queues balance in every state of the process, in the  *)
(* middle of any request and after any fault.                              *)
(***************************************************************************)
THEOREM ServingQueueBooksBalance == Spec => []QueueBooksBalance
<1>1. QueueBooksBalance <=>
        /\ LLM!LockMatchesLease /\ LLM!CountersAddUp
        /\ Vis!LockMatchesLease /\ Vis!SnapshotAddsUp /\ Vis!TimeoutsAreFailures
  BY DEF QueueBooksBalance
<1> QED
  BY <1>1, ServingDrivesLocks, LLMQueueLockMatchesLease, LLMQueueCountersAddUp,
     VisionQueueLockMatchesLease, VisionQueueSnapshotAddsUp,
     VisionQueueTimeoutsAreFailures, PTL

\* The guard's lock is that of its holder, inside the process too.
LEMMA ServingGuardLock == Spec => []Guard!LockMatchesLease
<1>1. GuardThm!Spec => []GuardThm!LockMatchesLease
  BY GuardThm!GuardLockMatchesLease, NoOneAssumption
     DEF NoOneAssumption, GuardThm!NoOneAssumption
<1>2. GuardThm!LockMatchesLease => Guard!LockMatchesLease
  BY DEF GuardThm!LockMatchesLease, Guard!LockMatchesLease, GuardThm!Holders,
         Guard!Holders, GuardThm!WithLease, Guard!WithLease
<1>3. Guard!Spec => GuardThm!Spec
  BY SameGuard, PTL DEF Guard!Spec, GuardThm!Spec
<1> QED
  BY <1>1, <1>2, <1>3, ServingDrivesLocks, PTL
-----------------------------------------------------------------------------
(***************************************************************************)
(* The handlers: which leases a request has at each place of its handler,  *)
(* and who reads a worker's pipe.                                          *)
(*                                                                         *)
(* The properties look at answered requests.  They are inductive only      *)
(* together with what holds on the way there, so the invariant says for    *)
(* every place of a handler which leases the request has (Stage).          *)
(***************************************************************************)
USE NoOneAssumption, KindAssumption DEF NoOneAssumption, KindAssumption

Types ==
  /\ pc \in [Requests -> Places]
  /\ verdict \in [Requests -> Verdicts]
  /\ job \in [Requests -> JobStates]
  /\ clientLock \in [Engines -> Requests \cup {NoOne}]
  /\ npuLease \in [Requests -> Guard!LeaseStatus]
  /\ llmLease \in [Requests -> LLM!LeaseStatus]
  /\ visLease \in [Requests -> Vis!LeaseStatus]

\* The lease of the queue that r's kind goes through; the other is untouched.
QueueLease(r, llm, vis) ==
  /\ llmLease[r] \in IF UsesLLMQueue(r) THEN llm ELSE {"none"}
  /\ visLease[r] \in IF Kind[r] = "vision" THEN vis ELSE {"none"}

\* run_nowait gave up on a chat request: its NPU lease is never given back.
CutOff(r) ==
  /\ "outer_timeout" \in Faults
  /\ pc[r] = "answered" /\ verdict[r] = "timeout"
  /\ Kind[r] = "chat"
  /\ npuLease[r] = "live" /\ llmLease[r] = "failed" /\ visLease[r] = "none"

\* Where a handler is tells which leases its request has.
Stage(r) ==
  \/ /\ pc[r] = "arriving" /\ verdict[r] = "none" /\ job[r] = "none"
     /\ npuLease[r] = "none" /\ QueueLease(r, {"none"}, {"none"})
  \/ /\ pc[r] = "queued" /\ verdict[r] = "none" /\ job[r] = "none"
     /\ npuLease[r] = "none" /\ QueueLease(r, {"live"}, {"live"})
  \/ /\ pc[r] = "serving" /\ verdict[r] = "none"
     /\ npuLease[r] = "live" /\ QueueLease(r, {"live"}, {"live"})
  \/ /\ pc[r] = "closing" /\ verdict[r] \in {"ok", "error", "timeout", "gone"}
     /\ npuLease[r] = IF verdict[r] = "ok" THEN "succeeding" ELSE "failing"
     /\ QueueLease(r, {"live"}, {"live"})
  \/ /\ pc[r] = "leaving" /\ verdict[r] = "ok"
     /\ npuLease[r] = "succeeded" /\ QueueLease(r, {"live"}, {"live", "succeeding"})
  \/ /\ pc[r] = "leaving" /\ verdict[r] \in {"error", "timeout", "gone"}
     /\ npuLease[r] = "failed" /\ QueueLease(r, {"live"}, {"live", "late", "failing"})
  \/ /\ pc[r] = "leaving" /\ verdict[r] = "busy" /\ job[r] = "none"
     /\ npuLease[r] = "refused" /\ QueueLease(r, {"live"}, {"live", "failing"})
  \/ /\ pc[r] = "answered" /\ verdict[r] = "ok"
     /\ npuLease[r] = "succeeded" /\ QueueLease(r, {"succeeded"}, {"succeeded"})
  \/ /\ pc[r] = "answered" /\ verdict[r] \in {"error", "timeout", "gone"}
     /\ npuLease[r] = "failed" /\ QueueLease(r, {"failed"}, {"failed"})
  \/ /\ pc[r] = "answered" /\ verdict[r] = "busy" /\ job[r] = "none"
     /\ npuLease[r] = "refused" /\ QueueLease(r, {"failed"}, {"failed"})
  \/ /\ pc[r] = "answered" /\ verdict[r] = "busy" /\ job[r] = "none"
     /\ npuLease[r] = "none" /\ Kind[r] # "vlm"
     /\ QueueLease(r, {"refused"}, {"refused"})
  \/ CutOff(r)

IInv == Types /\ (\A r \in Requests : Stage(r)) /\ OneReaderPerWorker

-----------------------------------------------------------------------------
(* What the methods of the three locks do to the lease of their request.    *)

LEMMA GuardMoves ==
  ASSUME NEW r \in Requests
  PROVE  /\ Guard!Accept(r) => /\ npuLease[r] = "none"
                               /\ npuLease' = [npuLease EXCEPT ![r] = "live"]
         /\ Guard!RejectBusy(r) => /\ npuLease[r] = "none"
                                   /\ npuLease' = [npuLease EXCEPT ![r] = "refused"]
         /\ \A how \in {"succeeding", "failing"} :
              Guard!EnterFinish(r, how) /\ npuLease[r] = "live"
                => npuLease' = [npuLease EXCEPT ![r] = how]
         /\ Guard!CommitFinish(r) =>
              \/ /\ npuLease[r] = "succeeding"
                 /\ npuLease' = [npuLease EXCEPT ![r] = "succeeded"]
              \/ /\ npuLease[r] = "failing"
                 /\ npuLease' = [npuLease EXCEPT ![r] = "failed"]
BY DEF Guard!Accept, Guard!RejectBusy, Guard!EnterFinish, Guard!Released, Guard!CommitFinish

LEMMA LLMMoves ==
  ASSUME NEW r \in Requests
  PROVE  /\ LLM!Accept(r) => /\ llmLease[r] = "none"
                             /\ llmLease' = [llmLease EXCEPT ![r] = "live"]
         /\ LLM!RejectBusy(r) => /\ llmLease[r] = "none"
                                 /\ llmLease' = [llmLease EXCEPT ![r] = "refused"]
         /\ \A how \in {"succeeded", "failed"} :
              LLM!Finish(r, how) /\ llmLease[r] = "live"
                => llmLease' = [llmLease EXCEPT ![r] = how]
         /\ LLM!TimeoutFinish(r) => /\ llmLease[r] = "live"
                                    /\ llmLease' = [llmLease EXCEPT ![r] = "failed"]
BY DEF LLM!Accept, LLM!RejectBusy, LLM!Finish, LLM!Released, LLM!TimeoutFinish, LLM!Record

LEMMA VisMoves ==
  ASSUME NEW r \in Requests
  PROVE  /\ Vis!Accept(r) => /\ visLease[r] = "none"
                             /\ visLease' = [visLease EXCEPT ![r] = "live"]
         /\ Vis!RejectBusy(r) => /\ visLease[r] = "none"
                                 /\ visLease' = [visLease EXCEPT ![r] = "refused"]
         /\ Vis!CountTimeout(r) => /\ visLease[r] = "live"
                                   /\ visLease' = [visLease EXCEPT ![r] = "late"]
         /\ \A how \in {"succeeding", "failing"} :
              Vis!EnterFinish(r, how)
                => /\ visLease[r] = "live" \/ (visLease[r] = "late" /\ how = "failing")
                   /\ visLease' = [visLease EXCEPT ![r] = how]
         /\ Vis!CommitFinish(r) =>
              \/ /\ visLease[r] = "succeeding"
                 /\ visLease' = [visLease EXCEPT ![r] = "succeeded"]
              \/ /\ visLease[r] = "failing"
                 /\ visLease' = [visLease EXCEPT ![r] = "failed"]
BY DEF Vis!Accept, Vis!RejectBusy, Vis!CountTimeout, Vis!EnterFinish, Vis!CommitFinish

\* At most the entries of r differ.
Only(r) ==
  /\ \A q \in Requests \ {r} :
       /\ pc'[q] = pc[q] /\ verdict'[q] = verdict[q] /\ job'[q] = job[q]
       /\ npuLease'[q] = npuLease[q] /\ llmLease'[q] = llmLease[q]
       /\ visLease'[q] = visLease[q]

\* What a step of one handler or thread leaves to be shown.
LEMMA OneMoves ==
  ASSUME IInv, NEW r \in Requests, Only(r), Types', Stage(r)',
         \/ job' = job /\ clientLock' = clientLock
         \/ OneReaderPerWorker'
  PROVE  IInv'
<1>1. ASSUME NEW q \in Requests PROVE Stage(q)'
  <2>1. CASE q = r
    BY <2>1
  <2>2. CASE q # r
    BY <2>2 DEF IInv, Only, Stage, CutOff, QueueLease, UsesLLMQueue
  <2> QED
    BY <2>1, <2>2
<1>2. OneReaderPerWorker'
  BY DEF IInv, OneReaderPerWorker, Engine
<1> QED
  BY <1>1, <1>2 DEF IInv

LEMMA ArriveIInv ==
  ASSUME IInv, NEW r \in Requests, Arrive(r)
  PROVE  IInv'
<1> USE DEF QueueLease, UsesLLMQueue
<1>1. /\ pc[r] = "arriving" /\ verdict[r] = "none" /\ job[r] = "none"
      /\ npuLease[r] = "none" /\ llmLease[r] = "none" /\ visLease[r] = "none"
      /\ job' = job /\ clientLock' = clientLock /\ npuLease' = npuLease
  BY DEF IInv, Arrive, Stage, CutOff, guardVars, backend, workers
<1>2. CASE pc' = [pc EXCEPT ![r] = "queued"] /\ verdict' = verdict
  <2>1. \/ /\ UsesLLMQueue(r) /\ visLease' = visLease
           /\ llmLease' = [llmLease EXCEPT ![r] = "live"]
        \/ /\ Kind[r] = "vision" /\ llmLease' = llmLease
           /\ visLease' = [visLease EXCEPT ![r] = "live"]
        \/ Kind[r] = "vlm" /\ llmLease' = llmLease /\ visLease' = visLease
    BY <1>1, <1>2, LLMMoves, VisMoves DEF Arrive, Goto, llmVars, visVars, IInv, Types, Places
  <2>2. Types' /\ Only(r)
    BY <1>1, <1>2, <2>1
       DEF IInv, Types, Only, Places, LLM!LeaseStatus, Vis!LeaseStatus
  <2>3. Stage(r)'
    BY <1>1, <1>2, <2>1 DEF IInv, Types, Stage
  <2> QED
    BY <1>1, <2>2, <2>3, OneMoves
<1>3. CASE pc' = [pc EXCEPT ![r] = "answered"] /\ verdict' = [verdict EXCEPT ![r] = "busy"]
  <2>1. \/ /\ UsesLLMQueue(r) /\ visLease' = visLease
           /\ llmLease' = [llmLease EXCEPT ![r] = "refused"]
        \/ /\ Kind[r] = "vision" /\ llmLease' = llmLease
           /\ visLease' = [visLease EXCEPT ![r] = "refused"]
    BY <1>1, <1>3, LLMMoves, VisMoves DEF Arrive, Goto, llmVars, visVars, IInv, Types, Places
  <2>2. Types' /\ Only(r)
    BY <1>1, <1>3, <2>1
       DEF IInv, Types, Only, Places, Verdicts, LLM!LeaseStatus, Vis!LeaseStatus
  <2>3. Stage(r)'
    BY <1>1, <1>3, <2>1 DEF IInv, Types, Stage
  <2> QED
    BY <1>1, <2>2, <2>3, OneMoves
<1> QED
  BY <1>2, <1>3 DEF Arrive, Goto, Answer

LEMMA EnterGuardIInv ==
  ASSUME IInv, NEW r \in Requests, EnterGuard(r)
  PROVE  IInv'
<1> USE DEF QueueLease, UsesLLMQueue
<1>1. /\ pc[r] = "queued" /\ verdict[r] = "none" /\ job[r] = "none"
      /\ npuLease[r] = "none" /\ QueueLease(r, {"live"}, {"live"})
      /\ clientLock' = clientLock /\ llmLease' = llmLease /\ visLease' = visLease
  BY DEF IInv, EnterGuard, Stage, CutOff, llmVars, visVars, workers
<1>2. \/ /\ npuLease' = [npuLease EXCEPT ![r] = "live"]
         /\ pc' = [pc EXCEPT ![r] = "serving"] /\ verdict' = verdict
         /\ job' = [job EXCEPT ![r] = IF Kind[r] = "stream" THEN "none" ELSE "waiting"]
      \/ /\ npuLease' = [npuLease EXCEPT ![r] = "refused"]
         /\ pc' = [pc EXCEPT ![r] = "leaving"]
         /\ verdict' = [verdict EXCEPT ![r] = "busy"] /\ job' = job
  BY GuardMoves DEF EnterGuard, Goto, Answer, SetJob
<1>3. Types' /\ Only(r)
  BY <1>1, <1>2 DEF IInv, Types, Only, Places, Verdicts, JobStates, Guard!LeaseStatus
<1>4. Stage(r)'
  BY <1>1, <1>2 DEF IInv, Types, Stage
<1>5. OneReaderPerWorker'
  BY <1>1, <1>2 DEF IInv, Types, OneReaderPerWorker, Engine
<1> QED
  BY <1>3, <1>4, <1>5, OneMoves

LEMMA BackendReturnedIInv ==
  ASSUME IInv, NEW r \in Requests, BackendReturned(r) \/ Disconnect(r)
  PROVE  IInv'
<1> USE DEF QueueLease, UsesLLMQueue
<1>1. /\ pc[r] = "serving" /\ npuLease[r] = "live" /\ QueueLease(r, {"live"}, {"live"})
      /\ job' = job /\ clientLock' = clientLock
      /\ llmLease' = llmLease /\ visLease' = visLease
  BY DEF IInv, BackendReturned, Disconnect, Stage, CutOff, llmVars, visVars, backend, workers
<1>2. /\ pc' = [pc EXCEPT ![r] = "closing"]
      /\ \/ /\ npuLease' = [npuLease EXCEPT ![r] = "succeeding"]
            /\ verdict' = [verdict EXCEPT ![r] = "ok"]
         \/ /\ npuLease' = [npuLease EXCEPT ![r] = "failing"]
            /\ \E v \in {"error", "timeout", "gone"} : verdict' = [verdict EXCEPT ![r] = v]
  BY <1>1, GuardMoves DEF BackendReturned, Disconnect, Goto, Answer
<1>3. Types' /\ Only(r)
  BY <1>1, <1>2 DEF IInv, Types, Only, Places, Verdicts, Guard!LeaseStatus
<1>4. Stage(r)'
  BY <1>1, <1>2 DEF IInv, Types, Stage
<1> QED
  BY <1>1, <1>3, <1>4, OneMoves

LEMMA CommitGuardIInv ==
  ASSUME IInv, NEW r \in Requests, CommitGuard(r)
  PROVE  IInv'
<1> USE DEF QueueLease, UsesLLMQueue
<1>1. /\ pc[r] = "closing" /\ verdict[r] \in {"ok", "error", "timeout", "gone"}
      /\ npuLease[r] = (IF verdict[r] = "ok" THEN "succeeding" ELSE "failing")
      /\ QueueLease(r, {"live"}, {"live"})
      /\ job' = job /\ clientLock' = clientLock
      /\ llmLease' = llmLease /\ visLease' = visLease /\ verdict' = verdict
      /\ pc' = [pc EXCEPT ![r] = "leaving"]
  BY DEF IInv, CommitGuard, Stage, CutOff, llmVars, visVars, backend, workers, Goto
<1>2. npuLease' = [npuLease EXCEPT ![r] = IF verdict[r] = "ok" THEN "succeeded" ELSE "failed"]
  BY <1>1, GuardMoves DEF CommitGuard
<1>3. Types' /\ Only(r)
  BY <1>1, <1>2 DEF IInv, Types, Only, Places, Guard!LeaseStatus
<1>4. Stage(r)'
  BY <1>1, <1>2 DEF IInv, Types, Stage
<1> QED
  BY <1>1, <1>3, <1>4, OneMoves

LEMMA OuterTimeoutIInv ==
  ASSUME IInv, NEW r \in Requests, OuterTimeout(r)
  PROVE  IInv'
<1> USE DEF QueueLease, UsesLLMQueue
<1>1. /\ "outer_timeout" \in Faults
      /\ Kind[r] = "chat" /\ npuLease[r] = "live" /\ visLease[r] = "none"
      /\ job' = job /\ clientLock' = clientLock
      /\ npuLease' = npuLease /\ visLease' = visLease
      /\ pc' = [pc EXCEPT ![r] = "answered"] /\ verdict' = [verdict EXCEPT ![r] = "timeout"]
      /\ llmLease' = [llmLease EXCEPT ![r] = "failed"]
  BY LLMMoves DEF IInv, OuterTimeout, Stage, CutOff, guardVars, visVars, backend, workers,
                  Goto, Answer
<1>2. Types' /\ Only(r)
  BY <1>1 DEF IInv, Types, Only, Places, Verdicts, LLM!LeaseStatus
<1>3. Stage(r)'
  BY <1>1 DEF IInv, Types, Stage, CutOff
<1> QED
  BY <1>1, <1>2, <1>3, OneMoves

LEMMA LeaveIInv ==
  ASSUME IInv, NEW r \in Requests, Leave(r)
  PROVE  IInv'
<1> USE DEF QueueLease, UsesLLMQueue
<1>1. /\ pc[r] = "leaving"
      /\ job' = job /\ clientLock' = clientLock
      /\ npuLease' = npuLease /\ verdict' = verdict
  BY DEF Leave, guardVars, backend, workers
<1>2. CASE UsesLLMQueue(r) /\ LeaveLLMQueue(r)
  <2>1. llmLease[r] = "live" /\ visLease[r] = "none"
    BY <1>1, <1>2 DEF IInv, Stage, CutOff
  <2>2. /\ pc' = [pc EXCEPT ![r] = "answered"] /\ visLease' = visLease
        /\ llmLease' = [llmLease EXCEPT ![r] = IF verdict[r] = "ok" THEN "succeeded" ELSE "failed"]
    BY <1>2, <2>1, LLMMoves DEF LeaveLLMQueue, Goto, visVars
  <2>3. Types' /\ Only(r)
    BY <1>1, <2>2 DEF IInv, Types, Only, Places, LLM!LeaseStatus
  <2>4. Stage(r)'
    BY <1>1, <1>2, <2>1, <2>2 DEF IInv, Types, Stage, CutOff
  <2> QED
    BY <1>1, <2>3, <2>4, OneMoves
<1>3. CASE Kind[r] = "vision" /\ LeaveVisionQueue(r)
  <2>1. llmLease[r] = "none" /\ llmLease' = llmLease
    BY <1>1, <1>3 DEF IInv, Stage, CutOff, LeaveVisionQueue, llmVars
  <2>2. \/ /\ pc' = pc /\ visLease[r] = "live"
           /\ \/ verdict[r] = "ok" /\ visLease' = [visLease EXCEPT ![r] = "succeeding"]
              \/ verdict[r] # "ok" /\ visLease' = [visLease EXCEPT ![r] = "failing"]
              \/ verdict[r] = "timeout" /\ visLease' = [visLease EXCEPT ![r] = "late"]
        \/ /\ pc' = pc /\ visLease[r] = "late"
           /\ verdict[r] # "ok" /\ visLease' = [visLease EXCEPT ![r] = "failing"]
        \/ /\ pc' = [pc EXCEPT ![r] = "answered"]
           /\ \/ /\ visLease[r] = "succeeding"
                 /\ visLease' = [visLease EXCEPT ![r] = "succeeded"]
              \/ /\ visLease[r] = "failing"
                 /\ visLease' = [visLease EXCEPT ![r] = "failed"]
    BY <1>3, VisMoves DEF LeaveVisionQueue, Goto
  <2>3. Types' /\ Only(r)
    BY <1>1, <2>1, <2>2 DEF IInv, Types, Only, Places, Vis!LeaseStatus
  <2>4. Stage(r)'
    BY <1>1, <1>3, <2>1, <2>2 DEF IInv, Types, Stage, CutOff
  <2> QED
    BY <1>1, <2>3, <2>4, OneMoves
<1>4. CASE Kind[r] = "vlm" /\ Goto(r, "answered") /\ UNCHANGED <<llmVars, visVars>>
  <2>1. /\ pc' = [pc EXCEPT ![r] = "answered"] /\ llmLease' = llmLease /\ visLease' = visLease
    BY <1>4 DEF Goto, llmVars, visVars
  <2>2. Types' /\ Only(r)
    BY <1>1, <2>1 DEF IInv, Types, Only, Places
  <2>3. Stage(r)'
    BY <1>1, <1>4, <2>1 DEF IInv, Types, Stage, CutOff
  <2> QED
    BY <1>1, <2>2, <2>3, OneMoves
<1> QED
  BY <1>2, <1>3, <1>4 DEF Leave

\* A thread's step, and a stream's next Pull, moves one job and one lock.
LEMMA JobMoves ==
  ASSUME IInv, NEW r \in Requests, NEW state \in JobStates \ {"none"},
         UNCHANGED <<pc, verdict, npuLease, llmLease, visLease>>,
         job' = [job EXCEPT ![r] = state],
         job[r] # "none" \/ pc[r] = "serving",
         clientLock' \in [Engines -> Requests \cup {NoOne}],
         OneReaderPerWorker'
  PROVE  IInv'
<1>1. Types' /\ Only(r)
  BY DEF IInv, Types, Only
<1>2. Stage(r)'
  BY DEF IInv, Types, Stage, CutOff, QueueLease, UsesLLMQueue
<1> QED
  BY <1>1, <1>2, OneMoves

LEMMA PullIInv ==
  ASSUME IInv, NEW r \in Requests, Pull(r)
  PROVE  IInv'
<1>1. /\ pc[r] = "serving" /\ clientLock' = clientLock
      /\ UNCHANGED <<pc, verdict, npuLease, llmLease, visLease>>
      /\ \/ job[r] = "none" /\ job' = [job EXCEPT ![r] = "waiting"]
         \/ job[r] = "paused" /\ job' = [job EXCEPT ![r] = "reading"]
  BY DEF Pull, guardVars, llmVars, visVars, handlers, workers, SetJob
<1>2. OneReaderPerWorker'
  BY <1>1 DEF IInv, Types, OneReaderPerWorker, Engine
<1> QED
  BY <1>1, <1>2, JobMoves DEF IInv, Types, JobStates

LEMMA CallIInv ==
  ASSUME IInv, NEW r \in Requests, Call(r)
  PROVE  IInv'
<1>1. UNCHANGED <<pc, verdict, npuLease, llmLease, visLease>>
  BY DEF Call, CallEnds, BeginCall, Reply, BadReply, EndCall, WorkerExits, WorkerTimeout,
         YieldDelta, CloseAbandoned, untouched, guardVars, llmVars, visVars, handlers
<1>2. Engine(r) \in Engines
  BY DEF Engine, Engines
\* The call takes the lock, keeps what it has, or gives its own back.
<1>3. \/ /\ job[r] = "waiting" /\ clientLock[Engine(r)] = NoOne
         /\ job' = [job EXCEPT ![r] = "reading"]
         /\ clientLock' = [clientLock EXCEPT ![Engine(r)] = r]
      \/ /\ job[r] = "waiting"
         /\ job' = [job EXCEPT ![r] = "error"] /\ clientLock' = clientLock
      \/ /\ job[r] = "reading"
         /\ job' = [job EXCEPT ![r] = "paused"] /\ clientLock' = clientLock
      \/ /\ job[r] \in {"reading", "paused"}
         /\ \E state \in {"ok", "error", "late"} : job' = [job EXCEPT ![r] = state]
         /\ clientLock' = [clientLock EXCEPT ![Engine(r)] = NoOne]
  <2>1. CASE BeginCall(r)
    BY <2>1 DEF BeginCall, SetJob
  <2>2. CASE Reply(r) \/ BadReply(r)
    BY <2>2 DEF Reply, BadReply, EndCall, SetJob, Unlock
  <2>3. CASE WorkerExits(r)
    BY <2>3 DEF WorkerExits, SetJob, Unlock
  <2>4. CASE WorkerTimeout(r)
    BY <2>4 DEF WorkerTimeout, SetJob, Unlock
  <2>5. CASE YieldDelta(r)
    BY <2>5 DEF YieldDelta, SetJob, workers
  <2>6. CASE CloseAbandoned(r)
    BY <2>6 DEF CloseAbandoned, SetJob, Unlock
  <2> QED
    BY <2>1, <2>2, <2>3, <2>4, <2>5, <2>6 DEF Call, CallEnds
<1>4. clientLock' \in [Engines -> Requests \cup {NoOne}]
  BY <1>2, <1>3 DEF IInv, Types
<1>5. \A q \in Requests : Engine(q) \in Engines
  BY DEF Engine, Engines
<1>6. OneReaderPerWorker'
  <2>1. ASSUME NEW q \in Requests
        PROVE  job'[q] \in {"reading", "paused"} <=> clientLock'[Engine(q)] = q
    <3>1. job[q] \in {"reading", "paused"} <=> clientLock[Engine(q)] = q
      BY DEF IInv, OneReaderPerWorker
    <3>2. job[r] \in {"reading", "paused"} <=> clientLock[Engine(r)] = r
      BY DEF IInv, OneReaderPerWorker
    <3>3. CASE q = r
      BY <1>2, <1>3, <3>2, <3>3 DEF IInv, Types
    <3>4. CASE q # r
      BY <1>2, <1>3, <1>5, <3>1, <3>2, <3>4 DEF IInv, Types
    <3> QED
      BY <3>3, <3>4
  <2> QED
    BY <2>1 DEF OneReaderPerWorker, Engine
<1> QED
  BY <1>1, <1>3, <1>4, <1>6, JobMoves DEF JobStates

LEMMA WorkerIInv ==
  ASSUME IInv, NEW e \in Engines, Worker(e)
  PROVE  IInv'
BY DEF Worker, TakePrompt, WriteReply, untouched, guardVars, llmVars, visVars, handlers,
       IInv, Types, OneReaderPerWorker, Stage, CutOff, QueueLease

LEMMA InitIInv == Init => IInv
<1> SUFFICES ASSUME Init PROVE IInv
  OBVIOUS
<1>1. Types
  BY DEF Init, Types, Guard!Init, LLM!Init, Vis!Init, Guard!LeaseStatus, LLM!LeaseStatus,
         Vis!LeaseStatus, Places, Verdicts, JobStates
<1>2. \A r \in Requests : Stage(r)
  BY DEF Init, Stage, QueueLease, Guard!Init, LLM!Init, Vis!Init
<1>3. OneReaderPerWorker
  BY DEF Init, OneReaderPerWorker, Engine, Engines
<1> QED
  BY <1>1, <1>2, <1>3 DEF IInv

LEMMA NextIInv == IInv /\ [Next]_vars => IInv'
<1> SUFFICES ASSUME IInv, [Next]_vars PROVE IInv'
  OBVIOUS
<1>1. CASE UNCHANGED vars
  BY <1>1 DEF vars, guardVars, llmVars, visVars, handlers, backend, workers,
              IInv, Types, OneReaderPerWorker, Stage, CutOff, QueueLease
<1>2. CASE Next
  BY <1>2, ArriveIInv, EnterGuardIInv, PullIInv, BackendReturnedIInv, CommitGuardIInv,
     LeaveIInv, OuterTimeoutIInv, CallIInv, WorkerIInv DEF Next, Handler
<1> QED
  BY <1>1, <1>2

LEMMA ServingInvariant == Spec => []IInv
BY InitIInv, NextIInv, PTL DEF Spec
-----------------------------------------------------------------------------
(***************************************************************************)
(* One call at most talks to a worker process, and it holds the client's   *)
(* lock, whatever has become of the handlers of older calls.               *)
(***************************************************************************)
THEOREM ServingOneReaderPerWorker == Spec => []OneReaderPerWorker
<1>1. IInv => OneReaderPerWorker
  BY DEF IInv
<1> QED
  BY <1>1, ServingInvariant, PTL

(***************************************************************************)
(* The only lease that survives its request's answer is the NPU lease of a *)
(* chat request that run_nowait cut off.                                   *)
(***************************************************************************)
THEOREM ServingOnlyTimedOutChatLeaks == Spec => []OnlyTimedOutChatLeaks
<1>1. IInv => OnlyTimedOutChatLeaks
  BY DEF IInv, OnlyTimedOutChatLeaks, Stage, CutOff, QueueLease, Leases
<1> QED
  BY <1>1, ServingInvariant, PTL

(***************************************************************************)
(* The answer and the two ledgers agree under every fault.                 *)
(***************************************************************************)
THEOREM ServingLedgersTellTheAnswer == Spec => []LedgersTellTheAnswer
<1>1. IInv => LedgersTellTheAnswer
  BY DEF IInv, LedgersTellTheAnswer, Stage, CutOff, QueueLease, UsesLLMQueue, Leases
<1> QED
  BY <1>1, ServingInvariant, PTL

(***************************************************************************)
(* If run_nowait gives up on nobody, no request holds a lease after its    *)
(* answer, whatever else fails.                                            *)
(***************************************************************************)
THEOREM ServingNothingHeldAfterAnswer ==
  ASSUME "outer_timeout" \notin Faults
  PROVE  Spec => []NothingHeldAfterAnswer
<1>1. IInv => NothingHeldAfterAnswer
  BY DEF IInv, NothingHeldAfterAnswer, Stage, CutOff, QueueLease, Leases
<1> QED
  BY <1>1, ServingInvariant, PTL

(***************************************************************************)
(* Under the same condition a queue's lease is never given back before the *)
(* NPU lease taken under it: the next request let into the queue is not    *)
(* refused by the guard because of its predecessor.                        *)
(***************************************************************************)
THEOREM ServingQueueLeaseOutlivesNPULease ==
  ASSUME "outer_timeout" \notin Faults
  PROVE  Spec => []QueueLeaseOutlivesNPULease
<1>1. IInv => QueueLeaseOutlivesNPULease
  BY DEF IInv, QueueLeaseOutlivesNPULease, Stage, CutOff, QueueLease, UsesLLMQueue,
         Guard!Holders, Guard!WithLease, LLM!Holders, LLM!WithLease,
         Vis!Holders, Vis!WithLease
<1> QED
  BY <1>1, ServingInvariant, PTL

(***************************************************************************)
(* Under the same condition npu_resource_busy is said only while another   *)
(* request is being handled: the guard refuses only when it has a holder,  *)
(* and no answered request holds anything.                                 *)
(***************************************************************************)
THEOREM ServingRefusedForSomeoneServed ==
  ASSUME "outer_timeout" \notin Faults
  PROVE  Spec => RefusedForSomeoneServed
<1> DEFINE Refusal == \A r \in Requests :
                        npuLease[r] = "none" /\ npuLease'[r] = "refused" =>
                          \E q \in Guard!Holders : pc[q] # "answered"
<1>1. ASSUME IInv, [Guard!Next]_(Guard!vars), Guard!LockMatchesLease
      PROVE  Refusal
  <2> SUFFICES ASSUME NEW r \in Requests, npuLease[r] = "none", npuLease'[r] = "refused"
               PROVE  \E q \in Guard!Holders : pc[q] # "answered"
    OBVIOUS
  <2>1. PICK s \in Requests : Guard!RejectBusy(s)
    BY <1>1 DEF Guard!Next, Guard!vars, Guard!Accept, Guard!EnterFinish,
                Guard!CommitFinish, Guard!Released, IInv, Types
  <2>2. PICK q \in Guard!Holders : TRUE
    BY <1>1, <2>1 DEF Guard!RejectBusy, Guard!LockMatchesLease
  <2>3. q \in Requests /\ npuLease[q] \in {"live", "succeeding", "failing"}
    BY <2>2 DEF Guard!Holders, Guard!WithLease
  <2>4. pc[q] # "answered"
    BY <1>1, <2>3 DEF IInv, Stage, CutOff
  <2> QED
    BY <2>2, <2>4
<1> QED
  BY <1>1, ServingInvariant, ServingGuardLock, ServingDrivesLocks, PTL
     DEF Guard!Spec, RefusedForSomeoneServed
-----------------------------------------------------------------------------
(***************************************************************************)
(* The workers.  Until a call of its engine has timed out or lost its      *)
(* client, a worker has at most one piece of work, and the request it came *)
(* from is still served; the guard serves one request at a time.           *)
(***************************************************************************)
Abandoned(e) ==
  \E r \in Requests : Engine(r) = e /\ verdict[r] \in {"timeout", "gone"}

\* A call that has not ended well is the call of a handler that waits for it.
Waited(e) ==
  \A r \in Requests :
    Engine(r) = e /\ job[r] \in {"waiting", "reading", "paused", "late"}
      => pc[r] = "serving"

Idle(e) == stdin[e] = <<>> /\ computing[e] = NoOne /\ stdout[e] = NoOne

\* Worker e has the prompt or the reply of r, and nothing else.
Piece(e, r) ==
  \/ stdin[e] = <<r>> /\ computing[e] = NoOne /\ stdout[e] = NoOne
  \/ stdin[e] = <<>> /\ computing[e] = r /\ stdout[e] = NoOne
  \/ stdin[e] = <<>> /\ computing[e] = NoOne /\ stdout[e] = r

\* The piece is the lock holder's, or that of a call which gave up waiting
\* and whose handler has not heard of it yet.
Work(e) ==
  \/ clientLock[e] # NoOne /\ Piece(e, clientLock[e])
  \/ clientLock[e] = NoOne /\ Idle(e)
  \/ /\ clientLock[e] = NoOne
     /\ \E r \in Requests :
          Engine(r) = e /\ job[r] = "late" /\ pc[r] = "serving" /\ Piece(e, r)

Calm(e) == Waited(e) /\ Work(e)

\* The lock of a client is held by one of its own calls.
OwnLock == \A e \in Engines : clientLock[e] # NoOne => Engine(clientLock[e]) = e

OneServed ==
  \A p, q \in Requests : pc[p] = "serving" /\ pc[q] = "serving" => p = q

WorkTypes ==
  /\ stdin \in [Engines -> Seq(Requests)]
  /\ computing \in [Engines -> Requests \cup {NoOne}]
  /\ stdout \in [Engines -> Requests \cup {NoOne}]
  /\ got \in [Requests -> Requests \cup {NoOne}]

WInv == WorkTypes /\ OwnLock /\ \A e \in Engines : Abandoned(e) \/ Calm(e)

LEMMA InitWInv == Init => WInv
BY DEF Init, WInv, WorkTypes, OwnLock, Calm, Waited, Work, Idle

LEMMA EngineType == \A r \in Requests : Engine(r) \in Engines
BY DEF Engine, Engines

\* The guard lets one handler in.
LEMMA GuardLetsOneIn == IInv /\ Guard!LockMatchesLease => OneServed
<1> SUFFICES ASSUME IInv, Guard!LockMatchesLease, NEW p \in Requests, NEW q \in Requests,
                    pc[p] = "serving", pc[q] = "serving"
             PROVE  p = q
  BY DEF OneServed
<1>1. npuLease[p] = "live" /\ npuLease[q] = "live"
  BY DEF IInv, Stage, CutOff
<1>2. p \in Guard!Holders /\ q \in Guard!Holders
  BY <1>1 DEF Guard!Holders, Guard!WithLease
<1> QED
  BY <1>2 DEF Guard!LockMatchesLease

\* An engine that nobody touches stays as it is.
LEMMA CalmStays ==
  ASSUME NEW e \in Engines, Calm(e),
         \A q \in Requests : Engine(q) = e => pc'[q] = pc[q] /\ job'[q] = job[q],
         clientLock'[e] = clientLock[e], stdin'[e] = stdin[e],
         computing'[e] = computing[e], stdout'[e] = stdout[e]
  PROVE  Calm(e)'
<1>1. Waited(e)'
  BY DEF Calm, Waited, Engine
<1>2. Work(e)'
  BY DEF Calm, Work, Idle, Piece, Engine
<1> QED
  BY <1>1, <1>2 DEF Calm

\* A handler that moves keeps its engine calm or abandons it.
LEMMA HandlerMoves ==
  ASSUME IInv, NEW r \in Requests, Handler(r)
  PROVE  /\ UNCHANGED <<got, clientLock, stdin, computing, stdout>>
         /\ \A q \in Requests \ {r} :
              pc'[q] = pc[q] /\ job'[q] = job[q] /\ verdict'[q] = verdict[q]
         /\ verdict[r] \in {"timeout", "gone"} => verdict'[r] = verdict[r]
         /\ \/ verdict'[r] \in {"timeout", "gone"}
            \/ /\ job[r] # "late" \/ pc[r] # "serving"
               /\ \/ job'[r] = job[r] /\ pc[r] # "serving"
                  \/ job'[r] \in {"ok", "error", "none"}
                  \/ pc'[r] = "serving"
<1>1. UNCHANGED <<got, clientLock, stdin, computing, stdout>>
  BY DEF Handler, Arrive, EnterGuard, Pull, BackendReturned, CommitGuard, Leave,
         OuterTimeout, Disconnect, backend, workers
<1>2. verdict[r] \in {"timeout", "gone"} => pc[r] \in {"closing", "leaving", "answered"}
  BY DEF IInv, Stage, CutOff
<1>3. pc[r] \in {"arriving", "queued"} => job[r] = "none"
  BY DEF IInv, Stage, CutOff
<1>4. CASE Arrive(r)
  BY <1>1, <1>2, <1>3, <1>4 DEF Arrive, Goto, Answer, backend, IInv, Types
<1>5. CASE EnterGuard(r)
  BY <1>1, <1>2, <1>3, <1>5 DEF EnterGuard, Goto, Answer, SetJob, IInv, Types
<1>6. CASE Pull(r)
  BY <1>1, <1>2, <1>6 DEF Pull, SetJob, handlers, IInv, Types
<1>7. CASE BackendReturned(r)
  BY <1>1, <1>2, <1>7 DEF BackendReturned, Goto, Answer, backend, IInv, Types
<1>8. CASE CommitGuard(r)
  BY <1>1, <1>2, <1>8 DEF CommitGuard, Goto, backend, IInv, Types
<1>9. CASE Leave(r)
  BY <1>1, <1>2, <1>9 DEF Leave, LeaveLLMQueue, LeaveVisionQueue, Goto, backend, IInv, Types
<1>10. CASE OuterTimeout(r)
  BY <1>1, <1>2, <1>10 DEF OuterTimeout, Goto, Answer, backend, IInv, Types
<1>11. CASE Disconnect(r)
  BY <1>1, <1>2, <1>11 DEF Disconnect, Goto, Answer, backend, IInv, Types
<1> QED
  BY <1>4, <1>5, <1>6, <1>7, <1>8, <1>9, <1>10, <1>11 DEF Handler

LEMMA HandlerWInv ==
  ASSUME IInv, WInv, NEW r \in Requests, Handler(r)
  PROVE  WInv'
<1>1. UNCHANGED <<got, clientLock, stdin, computing, stdout>>
  BY HandlerMoves
<1>2. WorkTypes' /\ OwnLock'
  BY <1>1 DEF WInv, WorkTypes, OwnLock, Engine
<1>3. ASSUME NEW e \in Engines PROVE (Abandoned(e) \/ Calm(e))'
  <2>1. CASE Abandoned(e)
    BY <2>1, HandlerMoves DEF Abandoned, Engine
  <2>2. CASE Calm(e) /\ Engine(r) # e
    BY <1>1, <2>2, HandlerMoves, CalmStays
  <2>3. CASE Calm(e) /\ Engine(r) = e /\ verdict'[r] \in {"timeout", "gone"}
    BY <2>3 DEF Abandoned, Engine
  <2>4. CASE Calm(e) /\ Engine(r) = e /\ verdict'[r] \notin {"timeout", "gone"}
    <3>1. Waited(e)'
      BY <2>4, HandlerMoves DEF Calm, Waited, Engine
    <3>2. \A q \in Requests :
            job[q] = "late" /\ pc[q] = "serving" => job'[q] = "late" /\ pc'[q] = "serving"
      BY <2>4, HandlerMoves
    <3>3. Work(e)'
      BY <1>1, <2>4, <3>2 DEF Calm, Work, Idle, Piece, Engine
    <3> QED
      BY <2>4, <3>1, <3>3 DEF Calm
  <2> QED
    BY <2>1, <2>2, <2>3, <2>4 DEF WInv
<1> QED
  BY <1>2, <1>3 DEF WInv
-----------------------------------------------------------------------------
(* The types of what is in the pipes. *)

LEMMA HandlerWorkTypes ==
  ASSUME WorkTypes, NEW r \in Requests, Handler(r)
  PROVE  WorkTypes'
<1>1. UNCHANGED <<got, stdin, computing, stdout>>
  BY DEF Handler, Arrive, EnterGuard, Pull, BackendReturned, CommitGuard, Leave,
         OuterTimeout, Disconnect, backend, workers
<1> QED
  BY <1>1 DEF WorkTypes

LEMMA WorkerWorkTypes ==
  ASSUME WorkTypes, NEW e \in Engines, Worker(e)
  PROVE  WorkTypes'
<1>1. CASE TakePrompt(e)
  <2>1. stdin[e] \in Seq(Requests) /\ stdin[e] # <<>>
    BY <1>1 DEF WorkTypes, TakePrompt
  <2>2. Head(stdin[e]) \in Requests /\ Tail(stdin[e]) \in Seq(Requests)
    BY <2>1
  <2> QED
    BY <1>1, <2>2 DEF WorkTypes, TakePrompt
<1>2. CASE WriteReply(e)
  BY <1>2 DEF WorkTypes, WriteReply
<1> QED
  BY <1>1, <1>2 DEF Worker

LEMMA CallWorkTypes ==
  ASSUME WorkTypes, NEW r \in Requests, Call(r)
  PROVE  WorkTypes'
<1>0. Engine(r) \in Engines
  BY DEF Engine, Engines
<1>1. CASE BeginCall(r)
  <2>1. Append(stdin[Engine(r)], r) \in Seq(Requests)
    BY <1>0 DEF WorkTypes
  <2> QED
    BY <1>0, <1>1, <2>1 DEF WorkTypes, BeginCall
<1>2. CASE Reply(r) \/ BadReply(r)
  BY <1>0, <1>2 DEF WorkTypes, Reply, BadReply, EndCall, Accepts
<1>3. CASE WorkerExits(r)
  BY <1>0, <1>3 DEF WorkTypes, WorkerExits, StopWorker
<1>4. CASE WorkerTimeout(r)
  <2>1. CASE Kind[r] \in {"stream", "vlm"}
    <3>1. got' = got /\ StopWorker(Engine(r))
      BY <1>4, <2>1 DEF WorkerTimeout
    <3> QED
      BY <1>0, <3>1 DEF WorkTypes, StopWorker
  <2>2. CASE Kind[r] \notin {"stream", "vlm"}
    BY <1>4, <2>2 DEF WorkTypes, WorkerTimeout
  <2> QED
    BY <2>1, <2>2
<1>5. CASE YieldDelta(r)
  BY <1>5 DEF WorkTypes, YieldDelta, workers
<1>6. CASE CloseAbandoned(r)
  BY <1>0, <1>6 DEF WorkTypes, CloseAbandoned, StopWorker
<1> QED
  BY <1>1, <1>2, <1>3, <1>4, <1>5, <1>6 DEF Call, CallEnds

LEMMA ServingWorkTypes == Spec => []WorkTypes
<1>1. Init => WorkTypes
  BY DEF Init, WorkTypes
<1>2. WorkTypes /\ [Next]_vars => WorkTypes'
  <2>1. WorkTypes /\ UNCHANGED vars => WorkTypes'
    BY DEF vars, workers, backend, WorkTypes
  <2> QED
    BY <2>1, HandlerWorkTypes, WorkerWorkTypes, CallWorkTypes DEF Next
<1> QED
  BY <1>1, <1>2, PTL DEF Spec

-----------------------------------------------------------------------------
(* The steps of the workers and of the calls keep the invariant. *)

LEMMA WorkerWInv ==
  ASSUME IInv, WInv, WorkTypes', NEW e \in Engines, Worker(e)
  PROVE  WInv'
<1>1. UNCHANGED <<pc, verdict, job, got, clientLock>>
  BY DEF Worker, TakePrompt, WriteReply, untouched, handlers
<1>2. \A f \in Engines \ {e} :
        stdin'[f] = stdin[f] /\ computing'[f] = computing[f] /\ stdout'[f] = stdout[f]
  BY DEF Worker, TakePrompt, WriteReply, WInv, WorkTypes
<1>3. ASSUME NEW r \in Requests \cup {NoOne}, r # NoOne, Piece(e, r) PROVE Piece(e, r)'
  <2>1. CASE TakePrompt(e)
    <3>1. stdin[e] = <<r>> /\ computing[e] = NoOne /\ stdout[e] = NoOne
      BY <1>3, <2>1 DEF TakePrompt, Piece
    <3>2. Head(stdin[e]) = r /\ Tail(stdin[e]) = <<>>
      BY <3>1
    <3>3. stdin'[e] = <<>> /\ computing'[e] = r /\ stdout'[e] = NoOne
      BY <2>1, <3>1, <3>2 DEF TakePrompt, WInv, WorkTypes
    <3> QED
      BY <3>3 DEF Piece
  <2>2. CASE WriteReply(e)
    <3>1. stdin[e] = <<>> /\ computing[e] = r
      BY <1>3, <2>2 DEF WriteReply, Piece
    <3>2. stdin'[e] = <<>> /\ computing'[e] = NoOne /\ stdout'[e] = r
      BY <2>2, <3>1 DEF WriteReply, WInv, WorkTypes
    <3> QED
      BY <3>2 DEF Piece
  <2> QED
    BY <2>1, <2>2 DEF Worker
<1>4. ~Idle(e)
  BY DEF Worker, TakePrompt, WriteReply, Idle
<1>5. ASSUME NEW f \in Engines PROVE (Abandoned(f) \/ Calm(f))'
  <2>1. CASE Abandoned(f)
    BY <1>1, <2>1 DEF Abandoned, Engine
  <2>2. CASE Calm(f) /\ f # e
    BY <1>1, <1>2, <2>2, CalmStays
  <2>3. CASE Calm(f) /\ f = e
    <3>1. Work(e)'
      BY <1>1, <1>3, <1>4, <2>3 DEF IInv, Types, Calm, Work, Engine
    <3> QED
      BY <1>1, <2>3, <3>1 DEF Calm, Waited, Engine
  <2> QED
    BY <2>1, <2>2, <2>3 DEF WInv
<1> QED
  BY <1>1, <1>5 DEF WInv, OwnLock, Engine

\* Where a call that moves leaves its worker.
LEMMA CallWork ==
  ASSUME IInv, WInv, OneServed, NEW r \in Requests, Call(r), ~Abandoned(Engine(r))
  PROVE  Work(Engine(r))'
<1> DEFINE e == Engine(r)
<1>1. e \in Engines /\ r # NoOne
  BY EngineType
<1>2. Calm(e) /\ OwnLock /\ WorkTypes /\ Types
  BY <1>1 DEF WInv, IInv
<1>3. job[r] \in {"reading", "paused"} <=> clientLock[e] = r
  BY DEF IInv, OneReaderPerWorker
<1>4. ~CloseAbandoned(r)
  BY DEF CloseAbandoned, Abandoned
<1>5. job[r] \in {"waiting", "reading", "paused"} /\ pc[r] = "serving" /\ pc' = pc
  BY <1>2, <1>4 DEF Call, CallEnds, BeginCall, Reply, BadReply, EndCall, WorkerExits,
     WorkerTimeout, YieldDelta, untouched, handlers, Calm, Waited
\* Nobody else is served, so no given-up call has left work behind.
<1>6. \/ clientLock[e] # NoOne /\ Piece(e, clientLock[e])
      \/ clientLock[e] = NoOne /\ Idle(e)
  BY <1>2, <1>5 DEF Calm, Work, OneServed
<1>7. CASE BeginCall(r)
  <2>1. clientLock[e] = NoOne /\ Idle(e)
    BY <1>6, <1>7 DEF BeginCall
  <2>2. /\ clientLock'[e] = r /\ stdin'[e] = <<r>> /\ computing'[e] = NoOne
        /\ stdout'[e] = NoOne
    BY <1>1, <1>2, <1>7, <2>1 DEF BeginCall, Idle, Types, WorkTypes
  <2> QED
    BY <1>1, <2>2 DEF Work, Piece, Engine
<1>8. CASE Reply(r) \/ BadReply(r)
  <2>1. job[r] = "reading" /\ stdout[e] # NoOne
    BY <1>8 DEF Reply, BadReply, EndCall, Accepts
  <2>2. stdout[e] = r /\ stdin[e] = <<>> /\ computing[e] = NoOne
    BY <1>1, <1>3, <1>6, <2>1 DEF Piece
  <2>3. /\ clientLock'[e] = NoOne /\ stdin'[e] = <<>> /\ computing'[e] = NoOne
        /\ stdout'[e] = NoOne /\ got'[r] = r
    BY <1>1, <1>2, <1>8, <2>2 DEF Reply, BadReply, EndCall, Unlock, Types, WorkTypes
  <2> QED
    BY <2>3 DEF Work, Idle, Engine
<1>9. CASE WorkerExits(r)
  <2>1. /\ clientLock'[e] = NoOne /\ stdin'[e] = <<>> /\ computing'[e] = NoOne
        /\ stdout'[e] = NoOne
    BY <1>1, <1>2, <1>9 DEF WorkerExits, StopWorker, Unlock, Types, WorkTypes
  <2> QED
    BY <2>1 DEF Work, Idle, Engine
<1>10. CASE WorkerTimeout(r)
  <2>1. /\ job[r] = "reading" /\ job'[r] = "late" /\ pc'[r] = "serving"
        /\ clientLock'[e] = NoOne
    BY <1>1, <1>2, <1>5, <1>10 DEF WorkerTimeout, SetJob, Unlock, Types
  <2>2. CASE Kind[r] \in {"stream", "vlm"}
    <3>1. stdin'[e] = <<>> /\ computing'[e] = NoOne /\ stdout'[e] = NoOne
      BY <1>1, <1>2, <1>10, <2>2 DEF WorkerTimeout, StopWorker, WorkTypes
    <3> QED
      BY <2>1, <3>1 DEF Work, Idle, Engine
  <2>3. CASE Kind[r] \notin {"stream", "vlm"}
    <3>1. Piece(e, r) /\ UNCHANGED <<stdin, computing, stdout>>
      BY <1>1, <1>3, <1>6, <1>10, <2>1, <2>3 DEF WorkerTimeout
    <3>2. Piece(e, r)'
      BY <3>1 DEF Piece, Engine
    <3> QED
      BY <2>1, <3>2 DEF Work, Engine
  <2> QED
    BY <2>2, <2>3
<1>11. CASE YieldDelta(r)
  <2>1. clientLock[e] = r /\ Piece(e, r)
    BY <1>1, <1>3, <1>6, <1>11 DEF YieldDelta
  <2>2. UNCHANGED <<got, clientLock, stdin, computing, stdout>>
    BY <1>11 DEF YieldDelta, workers
  <2> QED
    BY <1>1, <2>1, <2>2 DEF Work, Piece, Engine
<1> QED
  BY <1>4, <1>7, <1>8, <1>9, <1>10, <1>11 DEF Call, CallEnds

LEMMA CallWInv ==
  ASSUME IInv, WInv, OneServed, WorkTypes', NEW r \in Requests, Call(r)
  PROVE  WInv'
<1> DEFINE e == Engine(r)
<1>1. e \in Engines /\ r # NoOne
  BY EngineType
<1>2. UNCHANGED <<pc, verdict>>
  BY DEF Call, CallEnds, BeginCall, Reply, BadReply, EndCall, WorkerExits, WorkerTimeout,
         YieldDelta, CloseAbandoned, untouched, handlers
\* A call touches its own engine only.
<1>3. /\ \A q \in Requests \ {r} : job'[q] = job[q] /\ got'[q] = got[q]
      /\ \A f \in Engines \ {e} :
           /\ clientLock'[f] = clientLock[f] /\ stdin'[f] = stdin[f]
           /\ computing'[f] = computing[f] /\ stdout'[f] = stdout[f]
      /\ clientLock'[e] \in {r, NoOne, clientLock[e]}
      /\ job[r] \in {"waiting", "reading", "paused"}
  <2> USE <1>1 DEF SetJob, Unlock, StopWorker, IInv, Types, WInv, WorkTypes
  <2>1. CASE BeginCall(r)
    BY <2>1 DEF BeginCall
  <2>2. CASE Reply(r) \/ BadReply(r)
    BY <2>2 DEF Reply, BadReply, EndCall
  <2>3. CASE WorkerExits(r)
    BY <2>3 DEF WorkerExits
  <2>4. CASE WorkerTimeout(r)
    <3>1. CASE Kind[r] \in {"stream", "vlm"}
      BY <2>4, <3>1 DEF WorkerTimeout
    <3>2. CASE Kind[r] \notin {"stream", "vlm"}
      BY <2>4, <3>2 DEF WorkerTimeout
    <3> QED
      BY <3>1, <3>2
  <2>5. CASE YieldDelta(r)
    BY <2>5 DEF YieldDelta, workers
  <2>6. CASE CloseAbandoned(r)
    BY <2>6 DEF CloseAbandoned
  <2> QED
    BY <2>1, <2>2, <2>3, <2>4, <2>5, <2>6 DEF Call, CallEnds
<1>4. OwnLock'
  <2>1. ASSUME NEW f \in Engines, clientLock'[f] # NoOne PROVE Engine(clientLock'[f]) = f
    <3>1. clientLock'[f] = clientLock[f] \/ (f = e /\ clientLock'[f] = r)
      BY <1>3, <2>1
    <3>2. clientLock[f] # NoOne => Engine(clientLock[f]) = f
      BY DEF WInv, OwnLock
    <3> QED
      BY <2>1, <3>1, <3>2
  <2> QED
    BY <2>1 DEF OwnLock, Engine
<1>5. ASSUME NEW f \in Engines PROVE (Abandoned(f) \/ Calm(f))'
  <2>1. CASE Abandoned(f)
    BY <1>2, <2>1 DEF Abandoned, Engine
  <2>2. CASE Calm(f) /\ f # e
    BY <1>2, <1>3, <2>2, CalmStays
  <2>3. CASE Calm(f) /\ f = e /\ ~Abandoned(f)
    <3>1. Work(e)'
      BY <2>3, CallWork
    <3>2. Waited(e)'
      BY <1>2, <1>3, <2>3 DEF Calm, Waited, Engine
    <3> QED
      BY <2>3, <3>1, <3>2 DEF Calm
  <2> QED
    BY <2>1, <2>2, <2>3 DEF WInv
<1> QED
  BY <1>4, <1>5 DEF WInv

LEMMA NextWInv == IInv /\ OneServed /\ WInv /\ WorkTypes' /\ [Next]_vars => WInv'
<1> SUFFICES ASSUME IInv, OneServed, WInv, WorkTypes', [Next]_vars PROVE WInv'
  OBVIOUS
<1>1. CASE UNCHANGED vars
  <2>1. UNCHANGED <<pc, verdict, job, got, clientLock, stdin, computing, stdout>>
    BY <1>1 DEF vars, handlers, backend, workers
  <2>2. \A e \in Engines : (Abandoned(e) \/ Calm(e))'
    BY <2>1, CalmStays DEF WInv, Abandoned, Engine
  <2> QED
    BY <2>1, <2>2 DEF WInv, OwnLock, Engine
<1> QED
  BY <1>1, HandlerWInv, CallWInv, WorkerWInv DEF Next

LEMMA WorkInvariant == Spec => []WInv
<1>1. IInv /\ Guard!LockMatchesLease /\ WInv /\ WorkTypes' /\ [Next]_vars => WInv'
  BY NextWInv, GuardLetsOneIn
<1> QED
  BY <1>1, InitWInv, ServingInvariant, ServingGuardLock, ServingWorkTypes, PTL DEF Spec

\* In an engine nobody abandoned, who computes is served.
LEMMA CalmComputing ==
  ASSUME IInv, WInv, NEW e \in Engines, ~Abandoned(e), computing[e] # NoOne
  PROVE  computing[e] \in Guard!Holders
<1>1. computing[e] \in Requests /\ Calm(e)
  BY DEF WInv, WorkTypes
<1>2. pc[computing[e]] = "serving"
  <2>1. CASE clientLock[e] # NoOne
    <3>1. computing[e] = clientLock[e] /\ Engine(clientLock[e]) = e
      BY <1>1, <2>1 DEF Calm, Work, Piece, WInv, OwnLock
    <3>2. job[computing[e]] \in {"reading", "paused"}
      BY <1>1, <3>1 DEF IInv, OneReaderPerWorker
    <3> QED
      BY <1>1, <3>1, <3>2 DEF Calm, Waited
  <2>2. CASE clientLock[e] = NoOne
    BY <1>1, <2>2 DEF Calm, Work, Idle, Piece
  <2> QED
    BY <2>1, <2>2
<1>3. npuLease[computing[e]] = "live"
  BY <1>1, <1>2 DEF IInv, Stage, CutOff
<1> QED
  BY <1>1, <1>3 DEF Guard!Holders, Guard!WithLease

(***************************************************************************)
(* Under every fault the only work outside the guard is in an engine one   *)
(* of whose calls timed out or lost its client: errors, exits and replies  *)
(* never admit a second user of the NPU.                                   *)
(***************************************************************************)
THEOREM ServingStrayWorkIsAbandoned == Spec => []StrayWorkIsAbandoned
<1>1. IInv /\ WInv => StrayWorkIsAbandoned
  BY CalmComputing DEF StrayWorkIsAbandoned, Abandoned
<1> QED
  BY <1>1, WorkInvariant, ServingInvariant, PTL

-----------------------------------------------------------------------------
(***************************************************************************)
(* When nothing goes wrong but errors of the backend, no engine is ever    *)
(* abandoned.                                                              *)
(***************************************************************************)
ErrorsOnly == Faults \subseteq {"backend_error"}

Patient ==
  \A r \in Requests : verdict[r] \notin {"timeout", "gone"} /\ job[r] # "late"

LEMMA PatientInvariant == ASSUME ErrorsOnly PROVE Spec => []Patient
<1>1. Init => Patient
  BY DEF Init, Patient
<1>2. IInv /\ Patient /\ [Next]_vars => Patient'
  <2> SUFFICES ASSUME IInv, Patient, [Next]_vars PROVE Patient'
    OBVIOUS
  <2>1. CASE UNCHANGED vars
    BY <2>1 DEF vars, handlers, backend, Patient
  <2>2. ASSUME NEW r \in Requests, Handler(r) PROVE Patient'
    <3> USE DEF Patient, IInv, Types, Goto, Answer, SetJob
    <3>1. CASE Arrive(r)
      BY <3>1 DEF Arrive, backend
    <3>2. CASE EnterGuard(r)
      BY <3>2 DEF EnterGuard
    <3>3. CASE Pull(r)
      BY <3>3 DEF Pull, handlers
    <3>4. CASE BackendReturned(r)
      BY <3>4 DEF BackendReturned, backend
    <3>5. CASE CommitGuard(r) \/ Leave(r)
      BY <3>5 DEF CommitGuard, Leave, backend
    <3> QED
      BY <2>2, <3>1, <3>2, <3>3, <3>4, <3>5 DEF Handler, OuterTimeout, Disconnect, ErrorsOnly
  <2>3. ASSUME NEW r \in Requests, Call(r) PROVE Patient'
    <3>1. verdict' = verdict
      BY <2>3 DEF Call, CallEnds, BeginCall, Reply, BadReply, EndCall, WorkerExits,
         WorkerTimeout, YieldDelta, CloseAbandoned, untouched, handlers
    <3>2. \E state \in {"reading", "ok", "error", "paused"} : job' = [job EXCEPT ![r] = state]
      BY <2>3 DEF Call, CallEnds, BeginCall, Reply, BadReply, EndCall, WorkerExits,
         WorkerTimeout, YieldDelta, CloseAbandoned, SetJob, ErrorsOnly
    <3> QED
      BY <3>1, <3>2 DEF Patient, IInv, Types
  <2>4. ASSUME NEW e \in Engines, Worker(e) PROVE Patient'
    BY <2>4 DEF Worker, TakePrompt, WriteReply, untouched, handlers, Patient
  <2> QED
    BY <2>1, <2>2, <2>3, <2>4 DEF Next
<1> QED
  BY <1>1, <1>2, ServingInvariant, PTL DEF Spec

(***************************************************************************)
(* As long as nothing but a backend fails, a worker computes only under    *)
(* the NPU lease of the request whose prompt it computes: the purpose of   *)
(* the guard, for any set of requests and however often backends fail.     *)
(***************************************************************************)
THEOREM ServingComputesUnderLease ==
  ASSUME ErrorsOnly
  PROVE  Spec => []ComputesUnderLease
<1>1. IInv /\ WInv /\ Patient => ComputesUnderLease
  BY CalmComputing DEF ComputesUnderLease, Patient, Abandoned
<1> QED
  BY <1>1, WorkInvariant, PatientInvariant, ServingInvariant, PTL
-----------------------------------------------------------------------------
(***************************************************************************)
(* What is left in the pipes, under every fault.  A prompt is in one place *)
(* of its own engine's, and the call that wrote it either holds the lock   *)
(* of the client or has left the prompt behind.                            *)
(***************************************************************************)
InPipes(e, q) ==
  (\E i \in DOMAIN stdin[e] : stdin[e][i] = q) \/ computing[e] = q \/ stdout[e] = q

\* The call of q ended while its prompt was still with the worker.
LeftBehind(q) ==
  \/ Kind[q] \in {"chat", "vision"} /\ job[q] = "late"
  \/ GotForeignReply(q)

InOnePlace(e) ==
  /\ \A i, j \in DOMAIN stdin[e] : stdin[e][i] = stdin[e][j] => i = j
  /\ \A i \in DOMAIN stdin[e] : stdin[e][i] \notin {computing[e], stdout[e]}
  /\ computing[e] # NoOne => computing[e] # stdout[e]

Owned(e) ==
  \A q \in Requests :
    InPipes(e, q) => Engine(q) = e /\ (clientLock[e] = q \/ LeftBehind(q))

\* The owner of the reply that r got left it behind.
Explained(r) ==
  /\ UsesLLMQueue(r) /\ UsesLLMQueue(got[r])
  /\ \/ Kind[got[r]] = "chat" /\ job[got[r]] = "late"
     \/ GotForeignReply(got[r])

RepliesEnd == \A r \in Requests : got[r] # NoOne => job[r] \in {"ok", "error"}

PipesInv ==
  /\ \A e \in Engines : InOnePlace(e) /\ Owned(e)
  /\ RepliesEnd
  /\ ForeignReplyIsOfALateChat

LEMMA InitPipesInv == Init => PipesInv
<1> SUFFICES ASSUME Init PROVE PipesInv
  OBVIOUS
<1>1. /\ \A e \in Engines : stdin[e] = <<>> /\ computing[e] = NoOne /\ stdout[e] = NoOne
      /\ \A r \in Requests : got[r] = NoOne
  BY DEF Init
<1>2. \A e \in Engines : DOMAIN stdin[e] = {}
  BY <1>1
<1>3. \A e \in Engines : InOnePlace(e)
  BY <1>1, <1>2 DEF InOnePlace
<1>4. \A e \in Engines, q \in Requests : ~InPipes(e, q)
  BY <1>1, <1>2, NoOneAssumption DEF InPipes, NoOneAssumption
<1>5. RepliesEnd /\ ForeignReplyIsOfALateChat
  BY <1>1 DEF RepliesEnd, ForeignReplyIsOfALateChat, GotForeignReply
<1> QED
  BY <1>3, <1>4, <1>5 DEF PipesInv, Owned

\* A prompt that was left behind stays so, and a wrong reply explained, as long as
\* the calls that have ended are not touched.
LEMMA LeftBehindStays ==
  ASSUME PipesInv, WorkTypes, NEW S \in SUBSET Requests,
         \A q \in Requests \ S : job'[q] = job[q] /\ got'[q] = got[q],
         \A q \in S : job[q] \notin {"late", "ok", "error"}
  PROVE  /\ \A q \in Requests : LeftBehind(q) => LeftBehind(q)'
         /\ \A r \in Requests \ S : GotForeignReply(r)' => Explained(r)'
<1>1. \A q \in S : got[q] = NoOne /\ ~GotForeignReply(q) /\ ~LeftBehind(q)
  BY DEF PipesInv, RepliesEnd, LeftBehind, GotForeignReply
<1>2. \A q \in Requests \ S : (GotForeignReply(q)' <=> GotForeignReply(q)) /\ (LeftBehind(q)' <=> LeftBehind(q))
  BY DEF GotForeignReply, LeftBehind
<1>3. \A q \in Requests : LeftBehind(q) => LeftBehind(q)'
  BY <1>1, <1>2
<1>4. ASSUME NEW r \in Requests \ S, GotForeignReply(r)'
      PROVE  Explained(r)'
  <2>1. PICK q \in Requests : q = got[r] /\ q = got'[r]
    BY <1>2, <1>4 DEF WorkTypes, GotForeignReply
  <2>2. /\ UsesLLMQueue(r) /\ UsesLLMQueue(q)
        /\ (Kind[q] = "chat" /\ job[q] = "late") \/ GotForeignReply(q)
    BY <1>2, <1>4, <2>1 DEF PipesInv, ForeignReplyIsOfALateChat
  <2>3. (Kind[q] = "chat" /\ job'[q] = "late") \/ GotForeignReply(q)'
    BY <1>1, <1>2, <2>2
  <2> QED
    BY <2>1, <2>2, <2>3 DEF Explained, GotForeignReply, UsesLLMQueue
<1> QED
  BY <1>3, <1>4

\* A step of a handler.
LEMMA HandlerPipesInv ==
  ASSUME IInv, WorkTypes, PipesInv, NEW r \in Requests, Handler(r)
  PROVE  PipesInv'
<1>1. /\ UNCHANGED <<got, clientLock, stdin, computing, stdout>>
      /\ \A q \in Requests : job'[q] = job[q] \/ job[q] \in {"none", "paused"}
  <2> USE DEF Handler, SetJob, IInv, Types
  <2>1. CASE EnterGuard(r)
    <3>1. job[r] = "none"
      BY <2>1 DEF EnterGuard, Stage, CutOff
    <3> QED
      BY <2>1, <3>1 DEF EnterGuard, workers
  <2>2. CASE Pull(r)
    BY <2>2 DEF Pull, workers
  <2>3. CASE Arrive(r) \/ BackendReturned(r) \/ CommitGuard(r) \/ Leave(r)
    BY <2>3 DEF Arrive, BackendReturned, CommitGuard, Leave, backend, workers
  <2>4. CASE OuterTimeout(r) \/ Disconnect(r)
    BY <2>4 DEF OuterTimeout, Disconnect, backend, workers
  <2> QED
    BY <2>1, <2>2, <2>3, <2>4
<1>2. PICK S : S = {q \in Requests : job[q] \in {"none", "paused"}}
  OBVIOUS
<1>3. /\ \A q \in Requests : LeftBehind(q) => LeftBehind(q)'
      /\ \A q \in Requests \ S : GotForeignReply(q)' => Explained(q)'
  BY <1>1, <1>2, LeftBehindStays
<1>4. \A q \in S : ~GotForeignReply(q)'
  BY <1>1, <1>2 DEF PipesInv, RepliesEnd, GotForeignReply
<1>5. ForeignReplyIsOfALateChat'
  BY <1>3, <1>4 DEF ForeignReplyIsOfALateChat, Explained, UsesLLMQueue
<1>6. RepliesEnd'
  BY <1>1 DEF PipesInv, RepliesEnd
<1>7. \A e \in Engines : InOnePlace(e)' /\ Owned(e)'
  BY <1>1, <1>3 DEF PipesInv, InOnePlace, Owned, InPipes, Engine
<1> QED
  BY <1>5, <1>6, <1>7 DEF PipesInv

\* The worker takes a prompt or writes a reply.
LEMMA WorkerPipesInv ==
  ASSUME WorkTypes, PipesInv, NEW e \in Engines, Worker(e)
  PROVE  PipesInv'
<1>1. UNCHANGED <<job, got, clientLock>>
  BY DEF Worker, TakePrompt, WriteReply
<1>2. \A f \in Engines \ {e} :
        stdin'[f] = stdin[f] /\ computing'[f] = computing[f] /\ stdout'[f] = stdout[f]
  BY DEF Worker, TakePrompt, WriteReply, WorkTypes
<1>3. InOnePlace(e)' /\ \A q \in Requests : InPipes(e, q)' => InPipes(e, q)
  <2>1. PICK s \in Seq(Requests) : s = stdin[e]
    BY DEF WorkTypes
  <2>2. InOnePlace(e)
    BY DEF PipesInv
  <2>3. CASE TakePrompt(e)
    <3>1. s # <<>> /\ computing[e] = NoOne
      BY <2>1, <2>3 DEF TakePrompt
    <3>2. PICK t \in Seq(Requests) : t = Tail(s)
      <4>1. Tail(s) \in Seq(Requests)
        BY <3>1
      <4> QED
        BY <4>1
    <3>3. stdin'[e] = t /\ computing'[e] = s[1] /\ stdout'[e] = stdout[e]
      BY <2>1, <2>3, <3>1, <3>2 DEF TakePrompt, WorkTypes
    <3>4. /\ 1 \in DOMAIN s
          /\ \A i \in DOMAIN t : i + 1 \in DOMAIN s /\ t[i] = s[i + 1] /\ i + 1 # 1
          /\ \A i \in DOMAIN t : i \in Nat
      BY <3>1, <3>2
    <3>5. /\ \A i, j \in DOMAIN s : s[i] = s[j] => i = j
          /\ \A i \in DOMAIN s : s[i] # stdout[e]
      BY <2>1, <2>2 DEF InOnePlace
    <3>6. \A i, j \in DOMAIN t : t[i] = t[j] => i = j
      <4> SUFFICES ASSUME NEW i \in DOMAIN t, NEW j \in DOMAIN t, t[i] = t[j] PROVE i = j
        OBVIOUS
      <4>1. i + 1 = j + 1
        BY <3>4, <3>5
      <4> QED
        BY <3>4, <4>1
    <3>7. \A i \in DOMAIN t : t[i] # s[1] /\ t[i] # stdout[e]
      BY <3>4, <3>5
    <3>8. s[1] # stdout[e]
      BY <3>4, <3>5
    <3>9. InOnePlace(e)'
      BY <3>3, <3>6, <3>7, <3>8 DEF InOnePlace
    <3>10. \A q \in Requests : InPipes(e, q)' => InPipes(e, q)
      BY <2>1, <3>3, <3>4 DEF InPipes
    <3> QED
      BY <3>9, <3>10
  <2>4. CASE WriteReply(e)
    <3>1. /\ stdin'[e] = stdin[e] /\ computing'[e] = NoOne /\ stdout'[e] = computing[e]
          /\ computing[e] # NoOne
      BY <2>4 DEF WriteReply, WorkTypes
    <3>2. \A i \in DOMAIN s : s[i] \in Requests
      OBVIOUS
    <3>3. \A i \in DOMAIN s : s[i] # NoOne
      BY <3>2, NoOneAssumption DEF NoOneAssumption
    <3>4. InOnePlace(e)'
      BY <2>1, <2>2, <3>1, <3>3 DEF InOnePlace
    <3>5. \A q \in Requests : InPipes(e, q)' => InPipes(e, q)
      BY <3>1, NoOneAssumption DEF InPipes, NoOneAssumption
    <3> QED
      BY <3>4, <3>5
  <2> QED
    BY <2>3, <2>4 DEF Worker
<1>4. ASSUME NEW f \in Engines PROVE InOnePlace(f)' /\ Owned(f)'
  <2>1. CASE f = e
    BY <1>1, <1>3, <2>1 DEF PipesInv, Owned, LeftBehind, GotForeignReply, Engine
  <2>2. CASE f # e
    BY <1>1, <1>2, <2>2 DEF PipesInv, InOnePlace, Owned, InPipes, LeftBehind, GotForeignReply, Engine
  <2> QED
    BY <2>1, <2>2
<1>5. RepliesEnd' /\ ForeignReplyIsOfALateChat'
  BY <1>1 DEF PipesInv, RepliesEnd, ForeignReplyIsOfALateChat, GotForeignReply, UsesLLMQueue
<1> QED
  BY <1>4, <1>5 DEF PipesInv

\* The call of r ends or pauses, and what is in the pipes of its engine e was
\* there before; if r's own prompt is still there, r has left it behind or holds the lock.
LEMMA EndingPipesInv ==
  ASSUME IInv, WorkTypes, PipesInv, NEW r \in Requests, NEW e \in Engines, e = Engine(r),
         job[r] \in {"waiting", "reading", "paused"},
         \A q \in Requests \ {r} : job'[q] = job[q] /\ got'[q] = got[q],
         \A f \in Engines \ {e} :
           /\ clientLock'[f] = clientLock[f] /\ stdin'[f] = stdin[f]
           /\ computing'[f] = computing[f] /\ stdout'[f] = stdout[f],
         InOnePlace(e)',
         \A q \in Requests \ {r} : InPipes(e, q)' => InPipes(e, q) /\ clientLock[e] # q,
         InPipes(e, r)' => clientLock'[e] = r \/ LeftBehind(r)',
         got'[r] # NoOne => job'[r] \in {"ok", "error"},
         GotForeignReply(r)' => Explained(r)'
  PROVE  PipesInv'
<1>1. /\ \A q \in Requests : LeftBehind(q) => LeftBehind(q)'
      /\ \A q \in Requests \ {r} : GotForeignReply(q)' => Explained(q)'
  <2>1. \A q \in {r} : job[q] \notin {"late", "ok", "error"}
    OBVIOUS
  <2> QED
    BY <2>1, LeftBehindStays
<1>2. ForeignReplyIsOfALateChat'
  BY <1>1 DEF ForeignReplyIsOfALateChat, Explained, UsesLLMQueue
<1>3. RepliesEnd'
  BY DEF PipesInv, RepliesEnd
<1>4. Owned(e)'
  <2>1. ASSUME NEW q \in Requests, InPipes(e, q)'
        PROVE  Engine(q) = e /\ (clientLock'[e] = q \/ LeftBehind(q)')
    <3>1. CASE q = r
      BY <2>1, <3>1
    <3>2. CASE q # r
      <4>1. InPipes(e, q) /\ clientLock[e] # q
        BY <2>1, <3>2
      <4> QED
        BY <1>1, <4>1 DEF PipesInv, Owned
    <3> QED
      BY <3>1, <3>2
  <2> QED
    BY <2>1 DEF Owned, Engine
<1>5. ASSUME NEW f \in Engines \ {e} PROVE InOnePlace(f)' /\ Owned(f)'
  <2>1. InOnePlace(f)'
    BY DEF PipesInv, InOnePlace
  <2>2. ASSUME NEW q \in Requests, InPipes(f, q)'
        PROVE  Engine(q) = f /\ (clientLock'[f] = q \/ LeftBehind(q)')
    <3>1. InPipes(f, q)
      BY <2>2 DEF InPipes
    <3> QED
      BY <1>1, <3>1 DEF PipesInv, Owned
  <2> QED
    BY <2>1, <2>2 DEF Owned, Engine
<1> QED
  BY <1>2, <1>3, <1>4, <1>5 DEF PipesInv

LEMMA AppendPlaces ==
  ASSUME NEW S, NEW s \in Seq(S), NEW c \in S
  PROVE  /\ Len(Append(s, c)) = Len(s) + 1 /\ Append(s, c)[Len(s) + 1] = c
         /\ \A i \in 1..Len(s) : Append(s, c)[i] = s[i]
OBVIOUS

LEMMA CallPipesInv ==
  ASSUME IInv, WorkTypes, PipesInv, NEW r \in Requests, Call(r)
  PROVE  PipesInv'
<1>1. PICK e \in Engines : e = Engine(r)
  BY EngineType
<1>2. /\ job[r] \in {"waiting", "reading", "paused"} /\ r # NoOne
      /\ \A q \in Requests \ {r} : job'[q] = job[q] /\ got'[q] = got[q]
      /\ \A f \in Engines \ {e} :
           /\ clientLock'[f] = clientLock[f] /\ stdin'[f] = stdin[f]
           /\ computing'[f] = computing[f] /\ stdout'[f] = stdout[f]
  <2> USE <1>1, NoOneAssumption DEF NoOneAssumption, SetJob, Unlock, StopWorker, IInv, Types, WorkTypes
  <2>1. CASE BeginCall(r)
    BY <2>1 DEF BeginCall
  <2>2. CASE Reply(r) \/ BadReply(r)
    BY <2>2 DEF Reply, BadReply, EndCall
  <2>3. CASE WorkerExits(r)
    BY <2>3 DEF WorkerExits
  <2>4. CASE WorkerTimeout(r)
    <3>1. CASE Kind[r] \in {"stream", "vlm"}
      BY <2>4, <3>1 DEF WorkerTimeout
    <3>2. CASE Kind[r] \notin {"stream", "vlm"}
      BY <2>4, <3>2 DEF WorkerTimeout
    <3> QED
      BY <3>1, <3>2
  <2>5. CASE YieldDelta(r)
    BY <2>5 DEF YieldDelta, workers
  <2>6. CASE CloseAbandoned(r)
    BY <2>6 DEF CloseAbandoned
  <2> QED
    BY <2>1, <2>2, <2>3, <2>4, <2>5, <2>6 DEF Call, CallEnds
<1>3. /\ job[r] \in {"reading", "paused"} <=> clientLock[e] = r
      /\ got[r] = NoOne /\ ~GotForeignReply(r) /\ ~LeftBehind(r)
      /\ InOnePlace(e) /\ Owned(e)
  BY <1>1, <1>2 DEF IInv, OneReaderPerWorker, PipesInv, RepliesEnd, GotForeignReply, LeftBehind
\* What an emptied pipe leaves.
<1>4. ASSUME StopWorker(e), got' = got
      PROVE  PipesInv'
  <2>1. stdin'[e] = <<>> /\ computing'[e] = NoOne /\ stdout'[e] = NoOne
    BY <1>4 DEF StopWorker, WorkTypes
  <2>2. DOMAIN stdin'[e] = {}
    BY <2>1
  <2>3. InOnePlace(e)'
    BY <2>1, <2>2 DEF InOnePlace
  <2>4. \A q \in Requests : ~InPipes(e, q)'
    BY <2>1, <2>2, NoOneAssumption DEF InPipes, NoOneAssumption
  <2>5. got'[r] = NoOne /\ ~GotForeignReply(r)'
    BY <1>3, <1>4 DEF GotForeignReply
  <2> QED
    BY <1>1, <1>2, <2>3, <2>4, <2>5, EndingPipesInv
<1>5. CASE BeginCall(r)
  <2>1. clientLock[e] = NoOne /\ job[r] = "waiting" /\ got' = got /\ clientLock'[e] = r
    BY <1>1, <1>5 DEF BeginCall, IInv, Types
  <2>2. PICK s \in Seq(Requests) : s = stdin[e]
    BY DEF WorkTypes
  <2>3. stdin'[e] = Append(s, r) /\ computing'[e] = computing[e] /\ stdout'[e] \in {NoOne, stdout[e]}
    BY <1>1, <1>5, <2>2 DEF BeginCall, WorkTypes
  <2>4. PICK n \in Nat : n = Len(s) /\ DOMAIN s = 1..n
    OBVIOUS
  <2>5. PICK u \in Seq(Requests) : u = Append(s, r) /\ u = stdin'[e]
    BY <2>3
  <2>6. DOMAIN u = 1..(n + 1) /\ u[n + 1] = r /\ \A i \in 1..n : u[i] = s[i]
    <3>1. /\ Len(Append(s, r)) = Len(s) + 1 /\ Append(s, r)[Len(s) + 1] = r
          /\ \A i \in 1..Len(s) : Append(s, r)[i] = s[i]
      BY AppendPlaces
    <3>2. Len(u) = n + 1 /\ u[n + 1] = r /\ \A i \in 1..n : u[i] = s[i]
      BY <2>4, <2>5, <3>1
    <3> QED
      BY <3>2
  <2>7. ~InPipes(e, r)
    BY <1>2, <1>3, <2>1 DEF Owned
  <2>8. /\ \A i \in 1..n : s[i] # r /\ s[i] \in Requests
        /\ computing[e] # r /\ stdout[e] # r
    BY <2>2, <2>4, <2>7 DEF InPipes
  <2>9. InOnePlace(e)'
    <3>1. /\ \A i, j \in 1..n : s[i] = s[j] => i = j
          /\ \A i \in 1..n : s[i] \notin {computing[e], stdout[e]}
          /\ computing[e] # NoOne => computing[e] # stdout[e]
      BY <1>3, <2>2, <2>4 DEF InOnePlace
    <3>2. \A i \in 1..(n + 1) : i \in 1..n \/ i = n + 1
      OBVIOUS
    <3>3. \A i, j \in 1..(n + 1) : u[i] = u[j] => i = j
      BY <2>6, <2>8, <3>1, <3>2
    <3>4. \A i \in 1..(n + 1) : u[i] \notin {computing'[e], stdout'[e]}
      BY <1>2, <2>3, <2>6, <2>8, <3>1, <3>2, NoOneAssumption DEF NoOneAssumption
    <3>5. computing'[e] # NoOne => computing'[e] # stdout'[e]
      BY <2>3, <3>1
    <3> QED
      BY <2>5, <2>6, <3>3, <3>4, <3>5 DEF InOnePlace
  <2>10. ASSUME NEW q \in Requests \ {r}, InPipes(e, q)' PROVE InPipes(e, q) /\ clientLock[e] # q
    <3>1. q # NoOne /\ clientLock[e] # q
      BY <2>1, NoOneAssumption DEF NoOneAssumption
    <3>2. CASE \E i \in DOMAIN stdin'[e] : stdin'[e][i] = q
      <4>1. PICK i \in 1..(n + 1) : u[i] = q
        BY <2>5, <2>6, <3>2
      <4>2. i \in 1..n
        BY <2>6, <2>10, <4>1
      <4> QED
        BY <2>2, <2>4, <2>6, <3>1, <4>1, <4>2 DEF InPipes
    <3>3. CASE computing'[e] = q \/ stdout'[e] = q
      BY <2>3, <3>1, <3>3 DEF InPipes
    <3> QED
      BY <2>10, <3>2, <3>3 DEF InPipes
  <2>11. got'[r] = NoOne /\ ~GotForeignReply(r)'
    BY <1>3, <2>1 DEF GotForeignReply
  <2> QED
    BY <1>1, <1>2, <2>1, <2>9, <2>10, <2>11, EndingPipesInv
<1>6. CASE Reply(r) \/ BadReply(r)
  <2>1. PICK q \in Requests : q = stdout[e]
    BY <1>1, <1>6 DEF Reply, BadReply, EndCall, Accepts, WorkTypes
  <2>2. /\ clientLock[e] = r /\ Accepts(r, q) /\ got'[r] = q
        /\ stdin'[e] = stdin[e] /\ computing'[e] = computing[e] /\ stdout'[e] = NoOne
        /\ job'[r] \in {"ok", "error"}
    BY <1>1, <1>3, <1>6, <2>1 DEF Reply, BadReply, EndCall, SetJob, WorkTypes, IInv, Types
  <2>3. InOnePlace(e)'
    <3>1. PICK s \in Seq(Requests) : s = stdin[e]
      BY DEF WorkTypes
    <3>2. \A i \in DOMAIN s : s[i] # NoOne
      BY NoOneAssumption DEF NoOneAssumption
    <3> QED
      BY <1>3, <2>2, <3>1, <3>2 DEF InOnePlace
  <2>4. \A p \in Requests : InPipes(e, p)' => InPipes(e, p)
    BY <2>2, NoOneAssumption DEF InPipes, NoOneAssumption
  <2>5. InPipes(e, r)' => q # r
    BY <1>2, <1>3, <2>1, <2>2 DEF InPipes, InOnePlace
  <2>6. InPipes(e, r)' => LeftBehind(r)'
    BY <2>1, <2>2, <2>5, NoOneAssumption DEF LeftBehind, GotForeignReply, NoOneAssumption
  <2>7. ASSUME q # r PROVE Explained(r)'
    <3>1. Engine(q) = e /\ LeftBehind(q) /\ e # "yolo"
      BY <1>1, <1>3, <2>1, <2>2, <2>7 DEF InPipes, Owned, Accepts
    <3>2. Kind[q] \in {"chat", "stream", "vision", "vlm"} /\ Kind[r] \in {"chat", "stream", "vision", "vlm"}
      BY KindAssumption DEF KindAssumption
    <3>3. Kind[q] # "vision"
      BY <3>1 DEF Engine
    <3>4. (Kind[q] = "chat" /\ job[q] = "late") \/ GotForeignReply(q)
      BY <3>1, <3>3 DEF LeftBehind
    <3>5. UsesLLMQueue(q)
      BY <3>4 DEF PipesInv, ForeignReplyIsOfALateChat, UsesLLMQueue
    <3>6. e = "rkllm" /\ UsesLLMQueue(r)
      BY <1>1, <3>1, <3>2, <3>5 DEF Engine, UsesLLMQueue
    <3>7. job'[q] = job[q] /\ got'[q] = got[q]
      BY <1>2, <2>7
    <3> QED
      BY <2>2, <3>4, <3>5, <3>6, <3>7 DEF Explained, GotForeignReply, UsesLLMQueue
  <2>8. GotForeignReply(r)' => Explained(r)'
    BY <2>2, <2>7 DEF GotForeignReply
  <2>9. \A p \in Requests \ {r} : clientLock[e] # p
    BY <2>2
  <2> QED
    BY <1>1, <1>2, <2>2, <2>3, <2>4, <2>6, <2>8, <2>9, EndingPipesInv
<1>7. CASE WorkerExits(r) \/ CloseAbandoned(r)
  BY <1>1, <1>4, <1>7 DEF WorkerExits, CloseAbandoned
<1>8. CASE WorkerTimeout(r)
  <2>1. CASE Kind[r] \in {"stream", "vlm"}
    BY <1>1, <1>4, <1>8, <2>1 DEF WorkerTimeout
  <2>2. CASE Kind[r] \notin {"stream", "vlm"}
    <3>1. UNCHANGED <<got, stdin, computing, stdout>> /\ clientLock[e] = r /\ job'[r] = "late"
      BY <1>1, <1>3, <1>8, <2>2 DEF WorkerTimeout, SetJob, IInv, Types
    <3>2. LeftBehind(r)'
      BY <2>2, <3>1, KindAssumption DEF LeftBehind, KindAssumption
    <3>3. InOnePlace(e)' /\ \A q \in Requests : InPipes(e, q)' => InPipes(e, q)
      BY <1>3, <3>1 DEF InOnePlace, InPipes
    <3>4. got'[r] = NoOne /\ ~GotForeignReply(r)'
      BY <1>3, <3>1 DEF GotForeignReply
    <3>5. \A p \in Requests \ {r} : clientLock[e] # p
      BY <3>1
    <3> QED
      BY <1>1, <1>2, <3>2, <3>3, <3>4, <3>5, EndingPipesInv
  <2> QED
    BY <2>1, <2>2
<1>9. CASE YieldDelta(r)
  <2>1. UNCHANGED <<got, clientLock, stdin, computing, stdout>> /\ clientLock[e] = r
    BY <1>1, <1>3, <1>9 DEF YieldDelta, workers
  <2>2. InOnePlace(e)' /\ \A q \in Requests : InPipes(e, q)' => InPipes(e, q)
    BY <1>3, <2>1 DEF InOnePlace, InPipes
  <2>3. got'[r] = NoOne /\ ~GotForeignReply(r)'
    BY <1>3, <2>1 DEF GotForeignReply
  <2>4. clientLock'[e] = r /\ \A p \in Requests \ {r} : clientLock[e] # p
    BY <2>1
  <2> QED
    BY <1>1, <1>2, <2>2, <2>3, <2>4, EndingPipesInv
<1> QED
  BY <1>5, <1>6, <1>7, <1>8, <1>9 DEF Call, CallEnds

LEMMA PipesInvariant == Spec => []PipesInv
<1>1. IInv /\ WorkTypes /\ PipesInv /\ [Next]_vars => PipesInv'
  <2> SUFFICES ASSUME IInv, WorkTypes, PipesInv, [Next]_vars PROVE PipesInv'
    OBVIOUS
  <2>1. CASE UNCHANGED vars
    <3>1. UNCHANGED <<job, got, clientLock, stdin, computing, stdout>>
      BY <2>1 DEF vars, backend, workers
    <3> QED
      BY <3>1 DEF PipesInv, InOnePlace, Owned, InPipes, LeftBehind, RepliesEnd, GotForeignReply,
                  ForeignReplyIsOfALateChat, Engine, UsesLLMQueue
  <2> QED
    BY <2>1, HandlerPipesInv, CallPipesInv, WorkerPipesInv DEF Next
<1> QED
  BY <1>1, InitPipesInv, ServingInvariant, ServingWorkTypes, PTL DEF Spec

(***************************************************************************)
(* Whatever times out, fails or goes away, and however many requests there *)
(* are: a call that returns the reply to another's prompt is an RKLLM call *)
(* behind a chat that timed out, or behind one whose reply was wrong too   *)
(* (the drain of generate empties the pipe, not the worker).               *)
(***************************************************************************)
THEOREM ServingForeignReplyIsOfALateChat == Spec => []ForeignReplyIsOfALateChat
<1>1. PipesInv => ForeignReplyIsOfALateChat
  BY DEF PipesInv
<1> QED
  BY <1>1, PipesInvariant, PTL
-----------------------------------------------------------------------------
(***************************************************************************)
(* Every reachable state of the serving process is well typed, with the    *)
(* guard and both queues in it, for every set of requests and any faults.  *)
(***************************************************************************)
THEOREM ServingTypeOK == Spec => []TypeOK
<1>1. Guard!Spec => []Guard!TypeOK
  <2>1. GuardThm!Spec => []GuardThm!TypeOK
    BY GuardThm!GuardTypeCorrect, NoOneAssumption
     DEF NoOneAssumption, GuardThm!NoOneAssumption
  <2>2. GuardThm!TypeOK <=> Guard!TypeOK
    BY DEF GuardThm!TypeOK, Guard!TypeOK, GuardThm!LeaseStatus, Guard!LeaseStatus
  <2>3. Guard!Spec => GuardThm!Spec
    BY SameGuard, PTL DEF Guard!Spec, GuardThm!Spec
  <2> QED
    BY <2>1, <2>2, <2>3, PTL
<1>2. IInv /\ WorkTypes /\ Guard!TypeOK /\ LLM!TypeOK /\ Vis!TypeOK => TypeOK
  BY DEF IInv, Types, WorkTypes, TypeOK
<1> QED
  BY <1>1, <1>2, LLMQueueTypeOK, VisionQueueTypeOK, ServingDrivesLocks, ServingInvariant,
     ServingWorkTypes, PTL
=============================================================================
