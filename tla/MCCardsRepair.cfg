SPECIFICATION Spec
CONSTANTS
  a = a
  b = b
  x = x
  w = w
  y = y
  f = f
  h = h
  old = old
  new = new
  one = one
  two = two
  None = None
  Games = {a, b}
  Names = {x, w, y}
  Files = {f, h}
  Data = {old, new}
  Cards = {one, two}
  Folders = {two}
  Modes = {"managed"}
  Repairs = {FALSE, TRUE}
  Damage = {"flaw", "corrupt"}
  Copied = FALSE
  MaxEdits = 2
  MaxCalls = 3
  Owner <- MCOwner
  Own <- MCAllShared
  Slot <- MCSlot
  Capacity <- MCCapacity2
  Companions <- MCCompanionB
  ServerUnits <- MCServerUnits
  Writable <- MCWritable
  InitSlots <- MCSlots

PROPERTY RepairHeals
CHECK_DEADLOCK FALSE
