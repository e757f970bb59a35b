CONSTANTS
  a = a
  b = b
  Hosts = {a, b}
  Pids = {1, 2}
  Home <- MCHome
  Clients = {9}
  Slots = {1}
  HostOf <- MCHostOf
  Ports = {80}
  MSS = 1
  TX_BUF = 2
  RX_BUF = 1
  IW = 2
  MAX_RETRIES = 1
  SeqMod = 16
  EPHEMERAL = 90
  Stream <- MCStream
  MaxOpens = 2
  NetCap = 2
  ClosesEarly = FALSE
  Troubles <- MCTroubles
  Duplicates = {TRUE, FALSE}
  Procs = {1, 2}
  Socks = {1}
  RXQ = 2
  TXQ = 2
  UdpPorts = {7}
  OnLink = {"peer"}
  OffLink = {"far"}
  Gateway = "gw"
  DnsServer = "dns"
  HostNames = {"n1", "n2"}
  AddrOf <- MCAddrOf
  ArpSlots = 2
  Workloads = {{"udp"}, {"dns"}}
  MaxBinds = 2
  MaxDatagrams = 3
  MaxSends = 3
  MaxQueries = 2
  MaxDeathsU = 1
  h1 = h1
  i1 = i1
  i2 = i2
  None = None
  GrantAddrs = {i1, i2}
  MAX_ALLOW = 2
  MAX_LISTEN = 1
  Specs <- MCSpecs
  BootSpec <- Wide
  KeyOnCmdline = TRUE
  Dests <- MCDests
  Names = {h1}
  Resolves <- MCResolves
  FrameLen = {1, 2}
  MaxClock = 2
  MaxFrames = 3
  MaxOffers = 2
  Drivers = {"virtio", "e1000", "rtl8139"}
  QSZ = 3
  RXQ_SLOTS = 3
  NTX = 2
  MaxParts = 2
  MaxRxFrames = 5
  MaxTxFrames = 1
SPECIFICATION StackSpec
INVARIANTS  DatagramsFaithful  
CHECK_DEADLOCK FALSE
