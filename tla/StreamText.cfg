SPECIFICATION Spec
CONSTANTS
  Characters <- MCCharacters
  White <- MCWhite
  Space = " "
  Greeting <- MCGreeting
  EndMarkers <- MCEndMarkers
  Prompt <- MCPrompt
  Answers <- MCAnswers
  StopLists <- MCStopLists
  WholeGreeting = TRUE
INVARIANTS
  SentIsOfTheAnswer
  NoStopTextSent
  StreamEndsAtStop
  StreamAgreesWithWhole
CHECK_DEADLOCK FALSE
