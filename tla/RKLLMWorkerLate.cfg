SPECIFICATION Spec
CONSTANTS
  g1 = g1
  g2 = g2
  s1 = s1
  NoOne = NoOne
  Calls <- Three
  Kind <- KindOf
  Faults = {"answer_timeout"}
INVARIANT
  AnswersAreOwn
CHECK_DEADLOCK FALSE
