SPECIFICATION MCSpec
CONSTANTS
  i1 = i1
  i2 = i2
  p1 = p1
  p2 = p2
  Ips = {i1, i2}
  Ports = {p1, p2}
  Uids = {51, 52}
  Lives = {0, 1}
  Limits = {0, 2, 3}
  MinLimit = 1
  MaxLimit = 3
  DefLimit = 2
  MinLife = 1
  MaxLife = 2
  Wait = 2
  Sizes = {1, 2}
  Slots = 1
  None = none
  Torn = torn
  MaxTicks = 2
  MaxPackets = 3
  MaxSends = 2
  MaxFails = 1
  Totals = {1, 3}
  Room = 2
  MaxBytes = 5
  MaxBreaks = 1
  MaxCalls = 3
SYMMETRY Symmetry
CHECK_DEADLOCK FALSE
INVARIANTS
  SettingsTaken SinkBounded MCStreamIntact
PROPERTIES
  MCReturnsClean
