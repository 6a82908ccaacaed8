SPECIFICATION LiveSpec
CONSTANTS
  a = a
  b = b
  c = c
  a1 = a1
  a2 = a2
  b1 = b1
  c1 = c1
  c2 = c2
  Setups <- MCSetups
  Games = {a, b, c}
  Companions <- MCCompanions
  Modes = {"managed", "unmanaged"}
  Times = {9, 12}
  ServerUnits <- MCUnits
  Edits <- MCEdits
  InitDisks <- MCDisks
  MaxEdits = 1
  MaxCalls = 2
  MaxFails = 1
  Ids = {a1, a2, b1, c1, c2}
  IdGame <- MCIdGame
  IdName <- MCIdName
  IdBlocks <- MCIdBlocks
  Region <- MCRegion
  MaxZeros = 1
  DataBlocks = 5
  Tenth = 5
  OthersMax = 4
  EntriesMax = 5
  Broken = Broken
  Types <- MCTypes
  Paks = {"pak1", "pak2"}
  Swapped = {"sram"}
  Void = 8
  Free = 9
  Day = 2
  LowDays = 2
  Word = 16
  Cells = 2
  Span = 4
  Nibble = 2
  None = None
INVARIANT FolderSound
PROPERTIES CustodyKept OthersStay RestoreExact RetryCompletes ClockKept
CHECK_DEADLOCK FALSE
