CONSTANT Nil = Nil
SPECIFICATION Spec
INVARIANTS LookupsLeadToModels ProbesTellTheSize DetectionsAreTheBest GeometryIsTrue
   AnswersTell LinesAreRequests
CHECK_DEADLOCK FALSE
