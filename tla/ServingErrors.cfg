CONSTANTS
  c1 = c1
  s1 = s1
  v1 = v1
  v2 = v2
  m1 = m1
  NoOne = NoOne
  Kind <- AllKinds
  Requests <- AllKindsRequests
  Faults = {"backend_error"}
SPECIFICATION Spec
INVARIANTS ComputesUnderLease NothingHeldAfterAnswer LedgersTellTheAnswer
PROPERTIES RefusedForSomeoneServed LocksAreSlots
CHECK_DEADLOCK FALSE
