CONSTANTS
  MaxCaps = 3
  GenMod = 2
  Perms <- MCPerms
  PermWords <- MCPermWords
  Pids <- MCPids
  Resources <- MCResources
  Expirations <- MCExpirations
  MaxTicks = 1
  MaxMints = 3
  LedgerPids = {1, 2, 3}
  LedgerSize = 2
  Codes = {0, 256, 257}
  MaxReuse = 2
  Events = {grant, deny}
  AUDIT_LOG_ENTRIES = 2
  MaxRecords = 5
  MaxAuditTicks = 1
  MaxReboots = 2
  total_frames = 16
  Reserved = {0, 7}
  Spaces = {1, 2}
  Programs <- MCPrograms
  USER_STACK <- MCStack
  ReadOnly = {1}
  TableSpan = 2
  PageBytes = 2
  MaxSpawns = 4
SPECIFICATION KernelSpec
INVARIANTS CapabilitiesSound StaleIdsFail ExitsSound LedgerFaithful FramesSound
PROPERTIES DeathIsExact
CHECK_DEADLOCK FALSE
