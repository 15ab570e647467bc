SPECIFICATION Spec
CONSTANTS
  Letters = {"a", "b"}
  Digits = {"1"}
  Others = {"h", "k"}
  Lines <- MCLines
  Texts <- MCTexts
  MaxPatterns = 2
  MaxState = 7
CHECK_DEADLOCK FALSE
INVARIANTS AutomatonIs SearchFinds WordsStarred
