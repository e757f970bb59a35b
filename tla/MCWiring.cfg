CONSTANTS
  MaxCaps = 16
  GenMod = 1
  Perms <- MCPerms
  Pids <- MCPids
  Services <- MCServices
  Def <- MCDef
  Peers <- MCPeers
  HandWired <- MCHandWired
  MaxRows = 1
  Requests = {}
  Expirations = {}
  MaxTicks = 0
  MaxGen = 1
SPECIFICATION WiringSpec
INVARIANTS WiringSound
PROPERTIES ServicesRecover
CHECK_DEADLOCK FALSE
