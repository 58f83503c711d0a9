CONSTANTS
  r1 = r1
  r2 = r2
  NoOne = NoOne
  Requests <- Both
  Asks <- SomeAsks
  Backends <- AllBackends
  Faults <- AllFaults
SPECIFICATION FairSpec
INVARIANTS AnswerIsOwn ComputesUnderLease BlockIsComing
PROPERTY LeaseIsGivenBack
CHECK_DEADLOCK FALSE
