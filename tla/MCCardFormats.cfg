SPECIFICATION Spec
CONSTANTS
  x = x
  y = y
  z = z
  one = one
  two = two
  bare = bare
  Formats = {"ps1", "vmu", "gamecube", "saturn", "segacd", "ps2"}
  Blocks = 4
  SaturnBlocks = 6
  BlockWords = 2
  SegacdBlocks = 6
  Clusters = 12
  Slots = 3
  Counters = 4
  FirstCount <- MCFirst
  Names = {x, y, z}
  Summed <- MCSummed
  Units <- MCUnits
  Crossed = FALSE
  MaxDamage = 1
  MaxSteps = 5
  None = None
INVARIANTS BlocksAccounted PlacesServe RepairSettles CopiesServe
PROPERTIES SavesKept
CHECK_DEADLOCK FALSE
