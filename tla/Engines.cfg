SPECIFICATION Spec
CONSTANTS
  MaxPlies = 2
  MaxPlays = 1
  DeepPlies = 1
  Thinkers = {"X", "Q", "T", "F"}
INVARIANTS EnginesKnowRules EnginesFollow
PROPERTY AnswersSound
CHECK_DEADLOCK FALSE
