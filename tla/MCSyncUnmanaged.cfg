SPECIFICATION Spec
CONSTANTS
  a = a
  b = b
  ram = ram
  cart = cart
  own = own
  x = x
  y = y
  z = z
  old = old
  new = new
  None = None
  Nameless = Nameless
  Games = {a, b}
  Names = {x, y, z}
  Data = {old, new}
  Volumes = {ram}
  PerGame = {}
  Modes = {"unmanaged"}
  Damage = {"corrupt"}
  MaxEdits = 3
  MaxCalls = 4
  CallsAtomic = FALSE
  Devices <- MCDevices
  Device <- MCDevice
  Capacity <- MCCapacity2
  NameTable <- MCNameTable
  Targets <- MCTargetsShared
  Companions <- MCCompanionB
  Claimable <- MCNoClaim
  ServerUnits <- MCServerUnits
  Writable <- MCWritable
  InitVolumes <- MCInitShared
PROPERTIES UnmanagedKeepsOthers NoRevertUpload RestoreExact CompanionsStay
CHECK_DEADLOCK FALSE
