SPECIFICATION ClientSpec
CONSTANTS
  a = a
  b = b
  ram = ram
  cart = cart
  own = own
  x = x
  y = y
  z = z
  old = old
  new = new
  None = None
  Nameless = Nameless
  Games = {a, b}
  Names = {x, y, z}
  Data = {old, new}
  Volumes = {own, cart}
  PerGame = {own}
  Modes = {"managed"}
  Damage = {}
  MaxEdits = 2
  MaxCalls = 4
  CallsAtomic = TRUE
  Devices <- MCDevices
  Device <- MCDevice
  Capacity <- MCCapacity2
  NameTable <- MCNameTable
  Targets <- MCTargetsSplit
  Companions <- MCAlone
  Claimable <- MCNoClaim
  ServerUnits <- MCServerBoth
  Writable <- MCWritableBoth
  InitVolumes <- MCEmpty
INVARIANTS UncollectedClears
CHECK_DEADLOCK FALSE
