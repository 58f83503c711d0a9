------------------------ MODULE NPUResourceGuardProofs ------------------------
(***************************************************************************)
(* Theorems about the NPU guard, for every set of requests.                *)
(*                                                                         *)
(* The inductive invariant is TypeOK /\ LockMatchesLease: it says that a   *)
(* lease in the middle of _finish_lease is the holder's, so freeing        *)
(* "whatever is locked" frees the holder's lock.  The counters follow.     *)
(***************************************************************************)
EXTENDS NPUResourceGuard, FiniteSetTheorems, TLAPS

\* The inductive invariant that carries the safety properties.
IInv == TypeOK /\ LockMatchesLease

USE NoOneAssumption DEF NoOneAssumption

LEMMA InitIInv == Init => IInv
<1> SUFFICES ASSUME Init PROVE IInv
  OBVIOUS
<1>1. TypeOK
  BY DEF Init, TypeOK, LeaseStatus
<1>2. Holders = {}
  BY DEF Init, Holders, WithLease
<1> QED
  BY <1>1, <1>2 DEF Init, IInv, LockMatchesLease

\* A request refused by acquire_nowait holds nothing and changes no holder.
LEMMA RejectIInv ==
  ASSUME IInv, NEW r \in Requests, RejectBusy(r)
  PROVE  IInv'
<1>1. TypeOK'
  BY DEF IInv, TypeOK, RejectBusy, LeaseStatus
<1>2. Holders' = Holders
  BY DEF IInv, TypeOK, RejectBusy, Holders, WithLease
<1> QED
  BY <1>1, <1>2 DEF IInv, LockMatchesLease, RejectBusy

\* An accepted request becomes the only holder: there was none.
LEMMA AcceptIInv ==
  ASSUME IInv, NEW r \in Requests, Accept(r)
  PROVE  IInv'
<1>1. TypeOK'
  BY DEF IInv, TypeOK, Accept, LeaseStatus
<1>2. Holders = {}
  BY DEF IInv, LockMatchesLease, Accept
<1>3. Holders' = {r}
  BY <1>2 DEF IInv, TypeOK, Accept, Holders, WithLease
<1> QED
  BY <1>1, <1>3 DEF IInv, LockMatchesLease, Accept

\* Entering _finish_lease keeps the holder; re-entering changes nothing.
LEMMA EnterFinishIInv ==
  ASSUME IInv, NEW r \in Requests, NEW how \in {"succeeding", "failing"},
         EnterFinish(r, how)
  PROVE  IInv'
<1>1. TypeOK'
  BY DEF IInv, TypeOK, EnterFinish, LeaseStatus
<1>2. Holders' = Holders
  BY DEF IInv, TypeOK, EnterFinish, Holders, WithLease, Released
<1> QED
  BY <1>1, <1>2 DEF IInv, LockMatchesLease, EnterFinish

\* Committing a finish empties the slot: the finishing request was in it.
LEMMA CommitFinishIInv ==
  ASSUME IInv, NEW r \in Requests, CommitFinish(r)
  PROVE  IInv'
<1>1. TypeOK'
  <2>1. npuCompleted' \in Nat /\ npuFailed' \in Nat
    BY DEF IInv, TypeOK, CommitFinish
  <2>2. npuLease' \in [Requests -> LeaseStatus]
    BY DEF IInv, TypeOK, CommitFinish, LeaseStatus
  <2> QED
    BY <2>1, <2>2 DEF IInv, TypeOK, CommitFinish
<1>2. Holders = {r}
  BY DEF IInv, LockMatchesLease, CommitFinish, Holders, WithLease
<1>3. Holders' = {}
  BY <1>2 DEF IInv, TypeOK, CommitFinish, Holders, WithLease
<1> QED
  BY <1>1, <1>3 DEF IInv, LockMatchesLease, CommitFinish

LEMMA StutterIInv == IInv /\ UNCHANGED vars => IInv'
BY DEF IInv, TypeOK, LockMatchesLease, Holders, WithLease, vars

LEMMA NextIInv == IInv /\ [Next]_vars => IInv'
<1> SUFFICES ASSUME IInv, [Next]_vars PROVE IInv'
  OBVIOUS
<1>1. CASE UNCHANGED vars
  BY <1>1, StutterIInv
<1>2. CASE Next
  BY <1>2, RejectIInv, AcceptIInv, EnterFinishIInv, CommitFinishIInv DEF Next
<1> QED
  BY <1>1, <1>2

(* The variables of the guard have their types, whatever the requests do. *)
THEOREM GuardTypeCorrect == Spec => []TypeOK
<1>1. IInv => TypeOK
  BY DEF IInv
<1> QED
  BY <1>1, InitIInv, NextIInv, PTL DEF Spec

(***************************************************************************)
(* At every moment the lock is taken exactly while one lease is out, and   *)
(* the request reported as current is the one that has it, although        *)
(* _finish_lease frees the lock without looking at who holds it.           *)
(***************************************************************************)
THEOREM GuardLockMatchesLease == Spec => []LockMatchesLease
<1>1. IInv => LockMatchesLease
  BY DEF IInv
<1> QED
  BY <1>1, InitIInv, NextIInv, PTL DEF Spec
-----------------------------------------------------------------------------
LEMMA InitAddsUp == Init => SnapshotAddsUp
BY DEF Init, SnapshotAddsUp

LEMMA NextAddsUp == IInv /\ SnapshotAddsUp /\ [Next]_vars => SnapshotAddsUp'
<1> SUFFICES ASSUME IInv, SnapshotAddsUp, [Next]_vars PROVE SnapshotAddsUp'
  OBVIOUS
<1> USE DEF IInv, TypeOK, SnapshotAddsUp
<1>1. CASE UNCHANGED vars
  BY <1>1 DEF vars
<1>2. ASSUME NEW r \in Requests, RejectBusy(r) PROVE SnapshotAddsUp'
  BY <1>2 DEF RejectBusy
<1>3. ASSUME NEW r \in Requests, Accept(r) PROVE SnapshotAddsUp'
  BY <1>3 DEF Accept
<1>4. ASSUME NEW r \in Requests, NEW how \in {"succeeding", "failing"}, EnterFinish(r, how)
      PROVE  SnapshotAddsUp'
  BY <1>4 DEF EnterFinish
<1>5. ASSUME NEW r \in Requests, CommitFinish(r) PROVE SnapshotAddsUp'
  <2>1. npuLocked
    BY <1>5 DEF CommitFinish, LockMatchesLease, Holders, WithLease
  <2> QED
    BY <1>5, <2>1 DEF CommitFinish
<1> QED
  BY <1>1, <1>2, <1>3, <1>4, <1>5 DEF Next

(***************************************************************************)
(* The counters of every snapshot of /v1/metrics taken under _stats_lock   *)
(* add up, for any number of threads.                                      *)
(***************************************************************************)
THEOREM GuardSnapshotAddsUp == Spec => []SnapshotAddsUp
BY InitIInv, NextIInv, InitAddsUp, NextAddsUp, PTL DEF Spec

(***************************************************************************)
(* Only the holder's own finish frees the lock; it never passes from one   *)
(* request to another in a single step.                                    *)
(***************************************************************************)
THEOREM GuardOnlyHolderFrees == Spec => OnlyHolderFrees
<1> DEFINE HolderFrees == npuLocked => \/ npuCurrent' = npuCurrent
                                      \/ /\ ~npuLocked'
                                         /\ npuLease'[npuCurrent] \in {"succeeded", "failed"}
<1>1. IInv /\ [Next]_vars => [HolderFrees]_vars
  <2> SUFFICES ASSUME IInv, Next PROVE HolderFrees
    OBVIOUS
  <2>1. ASSUME NEW r \in Requests, RejectBusy(r) PROVE HolderFrees
    BY <2>1 DEF RejectBusy
  <2>2. ASSUME NEW r \in Requests, Accept(r) PROVE HolderFrees
    BY <2>2 DEF Accept
  <2>3. ASSUME NEW r \in Requests, NEW how \in {"succeeding", "failing"}, EnterFinish(r, how)
        PROVE  HolderFrees
    BY <2>3 DEF EnterFinish
  <2>4. ASSUME NEW r \in Requests, CommitFinish(r) PROVE HolderFrees
    <3>1. npuCurrent = r
      BY <2>4 DEF IInv, LockMatchesLease, CommitFinish, Holders, WithLease
    <3> QED
      BY <2>4, <3>1 DEF CommitFinish, IInv, TypeOK
  <2> QED
    BY <2>1, <2>2, <2>3, <2>4 DEF Next
<1> QED
  BY <1>1, InitIInv, NextIInv, PTL DEF Spec, OnlyHolderFrees
-----------------------------------------------------------------------------
LEMMA InitRefines == Init => Slot!Init
BY DEF Init, Slot!Init, Holders, WithLease

LEMMA NextRefines == IInv /\ [Next]_vars => [Slot!Next]_(Slot!vars)
<1> SUFFICES ASSUME IInv, [Next]_vars PROVE [Slot!Next]_(Slot!vars)
  OBVIOUS
<1> USE DEF IInv, TypeOK, Holders, WithLease, LeaseStatus
<1>1. CASE UNCHANGED vars
  BY <1>1 DEF vars, Slot!vars
<1>2. ASSUME NEW r \in Requests, RejectBusy(r) PROVE Slot!TurnAway(r)
  <2>1. Holders # {}
    BY <1>2 DEF RejectBusy, LockMatchesLease
  <2>2. Slot!New(r)
    BY <1>2 DEF RejectBusy, Slot!New
  <2> QED
    BY <1>2, <2>1, <2>2 DEF RejectBusy, Slot!TurnAway
<1>3. ASSUME NEW r \in Requests, Accept(r) PROVE Slot!Enter(r)
  <2>1. Holders = {}
    BY <1>3 DEF Accept, LockMatchesLease
  <2>2. Slot!New(r)
    BY <1>3 DEF Accept, Slot!New
  <2> QED
    BY <1>3, <2>1, <2>2 DEF Accept, Slot!Enter
<1>4. ASSUME NEW r \in Requests, NEW how \in {"succeeding", "failing"}, EnterFinish(r, how)
      PROVE  UNCHANGED Slot!vars
  BY <1>4 DEF EnterFinish, Released, Slot!vars
<1>5. ASSUME NEW r \in Requests, CommitFinish(r) PROVE Slot!Leave(r)
  BY <1>5 DEF CommitFinish, Slot!Leave
<1> QED
  BY <1>1, <1>2, <1>3, <1>4, <1>5 DEF Next, Slot!Next

(***************************************************************************)
(* The guard, locks, flags, counters and all, is an exclusive slot with    *)
(* the reject_when_busy policy: a request is refused only while another    *)
(* one holds the NPU, and every lease is given back at most once.          *)
(***************************************************************************)
THEOREM GuardImplementsSlot == Spec => SlotSpec
BY InitIInv, NextIInv, InitRefines, NextRefines, PTL DEF Spec, SlotSpec, Slot!Spec
-----------------------------------------------------------------------------
(***************************************************************************)
(* The counters as cardinalities.  The three sets start empty and grow by  *)
(* one member at a time, so they stay finite however many requests there   *)
(* are.                                                                    *)
(***************************************************************************)
Outcomes == {"refused", "succeeded", "failed"}

CountsFinite == \A s \in Outcomes : IsFiniteSet(WithLease({s}))

CountInv == CountsFinite /\ CountedOnce

LEMMA InitCount == Init => CountInv
<1> SUFFICES ASSUME Init PROVE CountInv
  OBVIOUS
<1>1. \A s \in Outcomes : WithLease({s}) = {}
  BY DEF Init, WithLease, Outcomes
<1> QED
  BY <1>1, FS_EmptySet DEF Init, CountInv, CountsFinite, CountedOnce, Outcomes

\* What one step that changes a single lease does to the three sets.
LEMMA LeaseMoves ==
  ASSUME TypeOK, NEW r \in Requests, NEW new \in LeaseStatus,
         npuLease' = [npuLease EXCEPT ![r] = new],
         NEW s \in Outcomes, npuLease[r] # s
  PROVE  WithLease({s})' = IF new = s THEN WithLease({s}) \cup {r} ELSE WithLease({s})
BY DEF TypeOK, WithLease, Outcomes

\* A lease that comes to rest adds its request to the set of its outcome.
LEMMA CountGrows ==
  ASSUME TypeOK, CountsFinite, NEW r \in Requests, NEW new \in Outcomes,
         npuLease[r] \notin Outcomes,
         npuLease' = [npuLease EXCEPT ![r] = new]
  PROVE  /\ CountsFinite'
         /\ Cardinality(WithLease({new})') = Cardinality(WithLease({new})) + 1
         /\ \A s \in Outcomes \ {new} :
               Cardinality(WithLease({s})') = Cardinality(WithLease({s}))
<1>1. \A s \in Outcomes :
        WithLease({s})' = IF new = s THEN WithLease({s}) \cup {r} ELSE WithLease({s})
  BY LeaseMoves DEF Outcomes, LeaseStatus
<1>2. r \notin WithLease({new})
  BY DEF WithLease, Outcomes
<1>3. IsFiniteSet(WithLease({new}))
  BY DEF CountsFinite
<1>4. /\ IsFiniteSet(WithLease({new}) \cup {r})
      /\ Cardinality(WithLease({new}) \cup {r}) = Cardinality(WithLease({new})) + 1
  BY <1>2, <1>3, FS_AddElement
<1> QED
  BY <1>1, <1>4 DEF CountsFinite

\* A lease that is issued or being finished is in none of the three sets.
LEMMA CountStays ==
  ASSUME TypeOK, CountsFinite, NEW r \in Requests,
         NEW new \in LeaseStatus \ Outcomes, npuLease[r] \notin Outcomes,
         npuLease' = [npuLease EXCEPT ![r] = new]
  PROVE  /\ CountsFinite'
         /\ \A s \in Outcomes : Cardinality(WithLease({s})') = Cardinality(WithLease({s}))
<1>1. \A s \in Outcomes : WithLease({s})' = WithLease({s})
  BY LeaseMoves DEF Outcomes
<1> QED
  BY <1>1 DEF CountsFinite

LEMMA NextCount == TypeOK /\ CountInv /\ [Next]_vars => CountInv'
<1> SUFFICES ASSUME TypeOK, CountInv, [Next]_vars PROVE CountInv'
  OBVIOUS
<1> USE DEF CountInv
<1>1. CASE UNCHANGED vars
  BY <1>1 DEF vars, CountedOnce, CountsFinite, WithLease
<1>2. ASSUME NEW r \in Requests, RejectBusy(r) PROVE CountInv'
  BY <1>2, CountGrows DEF RejectBusy, CountedOnce, Outcomes
<1>3. ASSUME NEW r \in Requests, Accept(r) PROVE CountInv'
  BY <1>3, CountStays DEF Accept, CountedOnce, Outcomes, LeaseStatus
<1>4. ASSUME NEW r \in Requests, NEW how \in {"succeeding", "failing"}, EnterFinish(r, how)
      PROVE  CountInv'
  <2>1. CASE Released(r)
    BY <1>4, <2>1 DEF EnterFinish, CountedOnce, CountsFinite, WithLease
  <2>2. CASE ~Released(r)
    <3>1. npuLease[r] \notin Outcomes /\ how \in LeaseStatus \ Outcomes
      BY <1>4, <2>2 DEF EnterFinish, Released, Outcomes, LeaseStatus
    <3>2. npuLease' = [npuLease EXCEPT ![r] = how]
      BY <1>4, <2>2 DEF EnterFinish
    <3>3. /\ CountsFinite'
          /\ \A s \in Outcomes : Cardinality(WithLease({s})') = Cardinality(WithLease({s}))
      BY <3>1, <3>2, CountStays
    <3> QED
      BY <1>4, <3>3 DEF EnterFinish, CountedOnce, Outcomes
  <2> QED
    BY <2>1, <2>2
<1>5. ASSUME NEW r \in Requests, CommitFinish(r) PROVE CountInv'
  <2>1. CASE npuLease[r] = "succeeding"
    BY <1>5, <2>1, CountGrows DEF CommitFinish, CountedOnce, Outcomes
  <2>2. CASE npuLease[r] = "failing"
    BY <1>5, <2>2, CountGrows DEF CommitFinish, CountedOnce, Outcomes
  <2> QED
    BY <1>5, <2>1, <2>2 DEF CommitFinish
<1> QED
  BY <1>1, <1>2, <1>3, <1>4, <1>5 DEF Next

(***************************************************************************)
(* rejected_busy, completed and failed count requests, each once, for any  *)
(* set of requests and any number of repeated finishes.                    *)
(***************************************************************************)
THEOREM GuardCountedOnce == Spec => []CountedOnce
<1>1. CountInv => CountedOnce
  BY DEF CountInv
<1> QED
  BY <1>1, GuardTypeCorrect, InitCount, NextCount, PTL DEF Spec
=============================================================================
