CONSTANTS
  r1 = r1
  r2 = r2
  r3 = r3
  r4 = r4
  NoOne = NoOne
  Requests <- MCRequests
SPECIFICATION Spec
INVARIANTS LockMatchesLease CountedOnce
PROPERTY SlotSpec
