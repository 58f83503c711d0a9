CONSTANTS
  r1 = r1
  r2 = r2
  r3 = r3
  NoOne = NoOne
  Requests <- MCRequests
SPECIFICATION Spec
INVARIANT SnapshotHidesAtMostOne
PROPERTY AtomicSpec
