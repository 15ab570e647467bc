SPECIFICATION Spec
CONSTANTS
  p1 = p1
  p2 = p2
  Procs = {p1, p2}
  Attrs = {1, 2}
  NodesNum <- MCNodesNum
  Mods <- MCMods
  Short <- MCShort
  Clears = TRUE
  MaxCalls = 3
  MaxDeaths = 1
INVARIANTS
  CountsRight
  WalkMeetsAll
