SPECIFICATION MCSpec
CONSTANTS
  c1 = c1
  c2 = c2
  NoSeg = none
  Clients = {c1, c2}
  Sizes = {1, 2}
  Ids = {1, 2}
  MaxCalls = 4
  MaxFails = 1
  Counts = {1, 2, 3}
  Readers = {"r1"}
  Zero = 0
  Junk = junk
  MaxLoads = 3
SYMMETRY Symmetry
CHECK_DEADLOCK FALSE
INVARIANTS
  SegmentsRight MCMappingRight MCConfigRight
