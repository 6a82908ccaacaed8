SPECIFICATION Spec
CONSTANTS
  a = a
  b = b
  ram = ram
  cart = cart
  own = own
  x = x
  y = y
  z = z
  old = old
  new = new
  None = None
  Nameless = Nameless
  Games = {a, b}
  Names = {x, y, z}
  Data = {old, new}
  Volumes = {ram, cart}
  PerGame = {}
  Modes = {"unmanaged"}
  Damage = {}
  MaxEdits = 1
  MaxCalls = 4
  CallsAtomic = TRUE
  Devices <- MCDevices
  Device <- MCDevice
  Capacity <- MCCapacity2
  NameTable <- MCNameTable
  Targets <- MCTargetsCart
  Companions <- MCCompanionB
  Claimable <- MCNoClaim
  ServerUnits <- MCServerUnits
  Writable <- MCWritable
  InitVolumes <- MCInitApart
PROPERTIES RestoreExact
CHECK_DEADLOCK FALSE
