SPECIFICATION Spec
CONSTANTS
  a = a
  b = b
  x = x
  w = w
  y = y
  f = f
  h = h
  old = old
  new = new
  one = one
  two = two
  None = None
  Games = {a, b}
  Names = {x, w, y}
  Files = {f, h}
  Data = {old, new}
  Cards = {one, two}
  Folders = {two}
  Modes = {"managed", "unmanaged"}
  Repairs = {FALSE, TRUE}
  Damage = {"flaw", "corrupt"}
  Copied = FALSE
  MaxEdits = 2
  MaxCalls = 3
  Owner <- MCOwner
  Own <- MCAllShared
  Slot <- MCSlot
  Capacity <- MCCapacity2
  Companions <- MCCompanionB
  ServerUnits <- MCServerUnits
  Writable <- MCWritable
  InitSlots <- MCSlots
INVARIANT CardsSound
PROPERTIES CustodyKept OthersStay RestoreExact PutBack WrittenShows
CHECK_DEADLOCK FALSE
