SPECIFICATION MCSpec
CONSTANTS
  t1 = t1
  t2 = t2
  t3 = t3
  f1 = f1
  h1 = h1
  Null = Null
  Timers = {t1, t2, t3}
  Heads = {h1}
  Funcs = {f1}
  Types = {}
  TopList = 2
  Shift = 0
  Delays <- MCDelaysWalk
  PlainAdd = TRUE
  ModNext = FALSE
  MaxJump = 2
  MaxTime = 4
  Owners = {"o1", "o2"}
  MicroTypes = {1}
  MicroDelays = {0, 1}
  MicroTime = 2
  MaxAdds = 3
SYMMETRY Addresses
INVARIANTS
  ListsSound
  OnTime
  MCMicroSound
