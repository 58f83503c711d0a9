SPECIFICATION Spec
CONSTANTS
  Characters <- MCCharacters
  White <- MCWhite
  Space = " "
  Greeting <- MCGreeting
  EndMarkers <- MCEndMarkers
  Prompt <- MCPrompt
  Answers <- FewAnswers
  StopLists <- NoStops
  WholeGreeting = FALSE
INVARIANTS
  SentIsOfTheAnswer
CHECK_DEADLOCK FALSE
