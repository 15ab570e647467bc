SPECIFICATION MCSpec
CONSTANTS
  v1 = v1
  v2 = v2
  v3 = v3
  empty = empty
  Versions = {v1, v2, v3, empty}
  Size <- MCSize
  Threads = {t1}
  Attached = {a1}
  NoFile = NoFile
  Zero = Zero
  Torn = Torn
  Blank = Blank
  Idle = Idle
  MaxChanges = 2
  MaxFails = 2
  MaxCrashes = 1
  Files <- MCFiles
  MaxPatterns = 2
  Legal = {"a", "b"}
  Illegal = {"x"}
  Addresses <- MCAddresses
  MaxUpdates = 5
INVARIANTS UpdateSound MCDictionaryFound
PROPERTIES CatchesUp
