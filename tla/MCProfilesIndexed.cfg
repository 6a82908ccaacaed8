SPECIFICATION Spec
CONSTANTS
  t = t
  p1 = p1
  p2 = p2
  f = f
  e = e
  old = old
  new = new
  Shared = Shared
  Titles = {t}
  Profiles = {p1, p2}
  Files = {f}
  Optional = {}
  Data = {old, new}
  Indexed = TRUE
  Modes = {"managed"}
  ServerUnits <- MCUnitsBoth
  InitFolders <- MCOrphan
  InitIndexes <- MCNoEntries
  InitCounters <- MCCounterZero
  MaxId = 4
  MaxEdits = 2
  MaxCalls = 3
  None = None
INVARIANTS TypeOK IndexSound ConflictMeansChanged
PROPERTIES NeverWiped RestoreExact CustodyKept
CHECK_DEADLOCK FALSE
