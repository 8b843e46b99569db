SPECIFICATION Spec
CONSTANTS
  None = None
  c1 = c1
  c2 = c2
  ann = ann
  home = home
  Clients = {c1, c2}
  Names = {ann}
  Key <- MCKey
  Addresses = {home}
  Address <- MCAddress
  Passwords = {p1, p2}
  Weak = Weak
  Long = Long
  Requests = {r1, r2}
  Window = 2
  Second = 2
  MaxPerUser = 1
  MaxPerIp = 2
  MaxTime = 4
  Databases <- MCDatabases
  Scripts <- MCScripts
  Disks <- MCDisks
  MaxCrashes = 1
  MaxMoves = 0
  MaxFaults = 1
SYMMETRY MCSymmetry
CHECK_DEADLOCK FALSE
INVARIANT CrashLeavesVersion
