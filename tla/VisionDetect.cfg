CONSTANTS
  r1 = r1
  r2 = r2
  small = small
  large = large
  NoOne = NoOne
  Requests <- Both
  Models <- Two
  Backends <- AllBackends
  Faults <- AllFaults
SPECIFICATION FairSpec
INVARIANTS DetectionsAreOwn LedgersAgree CallsAreCounted StrayWorkIsLate
PROPERTY AdmittedIsAnswered
CHECK_DEADLOCK FALSE
