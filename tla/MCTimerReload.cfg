SPECIFICATION FairSpec
CONSTANTS
  t1 = t1
  t2 = t2
  t3 = t3
  f1 = f1
  f2 = f2
  h1 = h1
  Null = Null
  Timers = {t1, t2}
  Heads = {h1}
  Funcs = {f1, f2}
  Types = {1, 2}
  TopList = 1
  Shift = 0
  Delays = {1, 2}
  PlainAdd = FALSE
  ModNext = FALSE
  MaxJump = 1
  MaxTime = 2
INVARIANTS
  HeldIsLive
PROPERTIES
  OnlyHeldCalled
  ScanEnds
