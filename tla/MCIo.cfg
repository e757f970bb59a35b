CONSTANTS
  VPorts = {"p", "q"}
  VsAllocs = {0, 2}
  VsWrap = 3
  TX_PAYLOAD = 2
  OUR_BUF_ALLOC = 2
  MaxWrite = 3
  MaxVsBytes = 3
  MaxVsSaid = 1
  MaxVsConnects = 2
  MaxVsRing = 1
  MaxVsFaults = 1
  disk_sectors = 3
  Wrap = 5
  CHUNK_SECTORS = 2
  SectorValues = {0, 1}
  MaxCalls = 2
  OSC_QSEED <- MCQseed
  OSC_EGRESS <- MCEgress
  RESEED_HEX_LEN = 1
  OSC_MAX = 4
  HexBytes = {"e"}
  SpecBytes = {"e"}
  Bytes = {"ESC", "]", "q", "e", "BEL"}
  CONSOLE_RING_SIZE = 5
  ReadMax = 3
  MaxBytes = 5
  MaxKeys = 1
  LogPids = {1, 2}
  LogMessages <- MCMessages
  WriteMax = 3
  SEG_MAX = 2
  MaxLogWrites = 2
  DiskSizes = {5, 8}
  AuditTop = 2
  Reserve = 2
  FieldLen = 1
  AuditLen = 1
  Bits = {1}
  MinTar = 2
  Archives <- MCArchives
  Fields <- MCFields
  Audits <- MCFields
  NoFiles <- MCNoFiles
  ColdField <- MCCold
  ColdAudit <- MCCold
  GHOST_M = 2
  GHOST_MAX_PEERS = 2
  Patterns = {0, 2}
  GHOST_MATCH_HAM = 1
  GHOST_FID_FULL = 2
  GHOST_FID_FLOOR = 1
  GHOST_COHERENCE = 2
  PEER_STALE_TICKS = 1
  MIN_FOLD_TICKS = 1
  Sources = {1, 2, 3}
  MaxLambda = 1
  MaxGhostTicks = 3
  MaxFolds = 0
  MaxGhostOps = 3
  SWARM_MAX_PAYLOAD = 2
  ReadCom2 = 3
  HostPayloads <- MCPayloads
  MaxHostFrames = 3
  MaxGhostLives = 2
  ConsoleRing = 4
  Chunk = 2
  AwaitChunk = 3
  LineMax = 3
  QpuReplyMax = 3
  Keystrokes = {"ESC", "[", "a", "CR", "LF", "BS", "^C"}
  ShellCommands = {"write", "cat", "udping", "net2", "http", "tcpput", "nslookup", "qpu"}
  MaxKeystrokes = 4
  MaxAsks = 2
  MaxShellCommands = 2
  AGENT_SUBS = 3
  MaxStrays = 1
  CircuitQubits = {1, 2}
  QBits = 3
  MaxDenominator = 2
  MaxCircuitH = 6
  MaxCircuitOps = 12
SPECIFICATION IoSpec
INVARIANTS  ConsoleOutputKept  ConsoleFaithful
  GhostSound ShellSound AgentsSound ProbabilityExact
PROPERTIES LivePeersKept
CHECK_DEADLOCK FALSE
