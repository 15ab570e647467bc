SPECIFICATION Spec
CONSTANTS
  Levels = {info1}
  DailyMaxes = {0, 2}
  Slices = {0, 3}
  MaxOne = 3
  Lens = {2}
  BufSize = 2
  HeadLen = 1
  Stops = {TRUE, FALSE}
  DayLen = 4
  Rest = 3
  MaxTicks = 4
  PerTick = 2
  MaxFails = 1
  MaxRestarts = 1
INVARIANTS
  FilesSound
PROPERTIES
  RecordsPlaced
  RestsWhenFull
