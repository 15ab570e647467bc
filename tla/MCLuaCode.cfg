CONSTANTS
  MaxIndexRK = 2
  MaxStack = 60
  MaxJump = 1000
  FieldsPerFlush = 2
  MaxArgC = 1
  MaxVars = 20
  MaxUpvalues = 3
  MaxLevels = 40
  StackSize = 60
  MaxSteps = 400
  Programs <- MCPrograms
  ChunkOf <- MCChunkOf
  MeaningOf <- MCMeaningOf
SPECIFICATION Spec
INVARIANTS
  RunsAsMeant
  TopIsRight
PROPERTIES
  CheckerAccepts
  ChunksLoad
