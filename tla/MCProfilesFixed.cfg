SPECIFICATION Spec
CONSTANTS
  t = t
  p1 = p1
  p2 = p2
  f = f
  e = e
  old = old
  new = new
  Shared = Shared
  Titles = {t}
  Profiles = {p1, p2}
  Files = {f, e}
  Optional = {e}
  Data = {old, new}
  Indexed = FALSE
  Modes = {"managed", "unmanaged"}
  ServerUnits <- MCUnitsBoth
  InitFolders <- MCNoFolders
  InitIndexes <- MCFixed
  InitCounters <- MCCounterZero
  MaxId = 3
  MaxEdits = 2
  MaxCalls = 3
  None = None
PROPERTIES OthersStay RestoreExact
CHECK_DEADLOCK FALSE
