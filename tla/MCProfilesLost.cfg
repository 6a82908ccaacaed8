SPECIFICATION Spec
CONSTANTS
  t = t
  p1 = p1
  p2 = p2
  f = f
  e = e
  old = old
  new = new
  Shared = Shared
  Titles = {t}
  Profiles = {p1}
  Files = {f}
  Optional = {}
  Data = {old, new}
  Indexed = FALSE
  Modes = {"unmanaged"}
  ServerUnits <- MCUnitsEach
  InitFolders <- MCNoFolders
  InitIndexes <- MCFixed
  InitCounters <- MCCounterZero
  MaxId = 3
  MaxEdits = 3
  MaxCalls = 3
  None = None
PROPERTIES CustodyKept
CHECK_DEADLOCK FALSE
