CONSTANTS
  Pids <- MCPids
  Jobs <- MCJobs
  InflightMax = 1
  QsubMax = 1
  MaxIds = 2
  MaxGen = 2
  Keys = {1, 2}
  Nonces = {1}
  BoxLen = 1
  SEND_TICKS = 1
  SNAPSHOT_TRIES = 1
  MaxSwarmTicks = 1
  MaxAdmits = 2
  MaxRebirths = 1
  MaxPeerSeq = 1
  Programs = {"httpd", "modbusd"}
  ReqCap = 4
  ReqDeadline = 2
  MB_NREG = 8
  MbRequests <- SomeRequests
  MaxConnections = 2
  MaxRequestParts = 3
SPECIFICATION CitizensSpec
INVARIANTS JobsSound PeersSound 
PROPERTIES JobsSettle 
CHECK_DEADLOCK FALSE
