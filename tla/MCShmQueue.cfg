SPECIFICATION MCSpec
CONSTANTS
  HDR = 1
  BLK = 2
  CqSize = 6
  DataMax = 2
  CqMax = 7
  Word = 15
  Tries = 2
  Lengths <- MCLengths
  MaxMsgs = 6
  MaxCrashes = 1
  Users = {"u1", "u2", "u3"}
  Regions = {1, 2}
  MaxFails = 1
  Procs = {"p1", "p2"}
  MaxStarts = 4
  MaxValue = 3
CHECK_DEADLOCK FALSE
INVARIANTS
  QueueSound MCSharedSound
PROPERTIES
  EmptyMeansEmpty
  ImplementsFifo
  MCAllDelivered
  MCGetsIn
