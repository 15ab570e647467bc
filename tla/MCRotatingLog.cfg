SPECIFICATION MCSpec
CONSTANTS
  t1 = t1
  t2 = t2
  info1 = info1
  error1 = error1
  Threads = {t1}
  Levels = {info1}
  LogSize = 2
  Configs = {0, 3}
  Intervals = {0, 2}
  MaxDay = 4
  PerDay = 6
  MaxFails = 1
  MaxRestarts = 1
INVARIANTS
  OneDescriptor
  FilesRight
PROPERTIES
  FilesFollow
