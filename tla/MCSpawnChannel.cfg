CONSTANTS
  MaxCaps = 12
  GenMod = 1
  Perms <- MCPerms
  Pids <- MCPids
  Services <- MCServices
  Def <- MCDef
  Peers <- MCPeers
  HandWired <- MCHandWired
  MaxRows = 2
  Requests <- MCRequests
  Expirations <- MCExpirations
  MaxTicks = 1
  MaxGen = 2
  MailPids <- MCMailPids
  MaxQueue = 3
  MaxEntries = 3
  MaxSends = 4
  MailChannels <- MCChannels
  ANY = ANY
  CLOSED = CLOSED
SPECIFICATION SocietySpec
INVARIANTS SpawnChannelWhole
CHECK_DEADLOCK FALSE
