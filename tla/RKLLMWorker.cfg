SPECIFICATION FairSpec
CONSTANTS
  g1 = g1
  g2 = g2
  s1 = s1
  NoOne = NoOne
  Calls <- Three
  Kind <- KindOf
  Faults <- AllButSlowPrompt
INVARIANTS
  CountedOnce
  OnlyLateOutputMixesUp
  FailedStreamStopsWorker
  WorksForTheHolder
PROPERTY
  EveryCallEnds
CHECK_DEADLOCK FALSE
