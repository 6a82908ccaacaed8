SPECIFICATION ClientSpec
CONSTANTS
  a = a
  b = b
  ram = ram
  cart = cart
  own = own
  x = x
  y = y
  z = z
  old = old
  new = new
  None = None
  Nameless = Nameless
  Games = {a, b}
  Names = {x, y, z}
  Data = {old, new}
  Volumes = {ram}
  PerGame = {}
  Modes = {"managed"}
  Damage = {}
  MaxEdits = 2
  MaxCalls = 4
  CallsAtomic = TRUE
  Devices <- MCDevices
  Device <- MCDevice
  Capacity <- MCCapacity2
  NameTable <- MCNameTable
  Targets <- MCTargetsShared
  Companions <- MCAlone
  Claimable <- MCClaimZ
  ServerUnits <- MCServerUnits
  Writable <- MCWritable
  InitVolumes <- MCInitShared
INVARIANTS LatestHoldingHasAll
CHECK_DEADLOCK FALSE
