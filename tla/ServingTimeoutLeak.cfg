CONSTANTS
  c1 = c1
  s1 = s1
  v1 = v1
  v2 = v2
  m1 = m1
  NoOne = NoOne
  Kind <- ChatAndVision
  Requests <- ChatAndVisionRequests
  Faults = {"outer_timeout"}
SPECIFICATION Spec
INVARIANTS NothingHeldAfterAnswer
CHECK_DEADLOCK FALSE
