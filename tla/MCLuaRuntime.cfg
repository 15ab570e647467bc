SPECIFICATION MCSpec
CONSTANTS
  Shapes <- MCShapes
  MaxMoves = 3
  SweepMax = 1
  Keys <- MCKeys
  MaxArray = 2
  MaxBits = 4
  Items <- MCItems
  Subjects <- MCSubjects
  MaxItems = 4
  MaxCaptures = 2
  Cos = {1, 2}
  Values = {"a", "b"}
  MaxCalls = 3
  Ranks = {1, 2, 3}
  MaxLen = 5
  MaxLoose = 4
  MaxRounds = 20
  BufferSize = 2
  Limit = 4
  MaxText = 16
  Referents = {101, 102}
  MaxRefs = 5
CHECK_DEADLOCK FALSE
INVARIANTS
  MCMemoryRight
PROPERTIES
  MCLibraryRight
  MCCoroutines
