CONSTANTS
  Pids = {w, r}
  Writers = {w}
  Fds <- MCFds
  Slots <- MCSlots
  Blocks = {b1, b2}
  Names = {n1, n2}
  Initrd = {n2}
  FileMax = 1
  KHDR = 2
  HeapSize = 20
  Requests = {1, 2, 4, 7}
  Users = {u1, u2, u3}
  ArenaUnits = 12
  ByteRequests = {24, 25, 100}
  SizeModulus = 512
  HeapUsers = {u1, u2, u3}
  QUANTUM_MAX_QUBITS = 3
  QUANTUM_MAX_CONTEXTS = 2
  QUANTUM_MAX_CTX_QUBITS = 2
  QUANTUM_COHERENCE_TICKS = 1
  FIDELITY_HIGH = 2
  GATE_COST = 1
  Procs = {"p", "q"}
  Seeds = {"s"}
  MaxContexts = 3
  MaxTick = 1
  MaxDraws = 1
  MaxGates = 1
  Regions = {0}
  FIELD_SLOTS = 2
  FIELD_PAT_MAX = 3
  FIELD_RANK_MAX = 2
  FIELD_ENERGY_MIN = 2048
  FIELD_ENERGY_DEFAULT = 16384
  FIELD_ENERGY_MAX = 32767
  FIELD_DECAY_SHIFT = 8
  Citizens = {"qsh"}
  SpanOf <- MCSpan
  Inherits = {"qsh"}
  Patterns <- MCPatterns
  Energies = {0, 32767}
  Jump = 5000000
  MaxTime = 5000000
  MaxOps = 3
  ChiralQubits = {0, 1, 2, 3}
  MAX_COUPLINGS = 2
  MaxChiralOps = 4
  RPids = {1, 2}
  RClasses = {"quantum", "classical"}
  max_coupled = 2
  TrajectoryLen = 2
  PhiLevels = {0, 2, 3}
  PHI_THRESHOLD = 3
  FullPhi = 4
  DEFAULT_QUANTUM = 2
  CNetworks = 1
  Phases = {"sched", "conscious", "phi"}
  MaxROps = 4
  FieldPids = {1, 2, 3}
  BasePriority <- Priorities
  MaxBase = 1
  MaxBonus = 1
  AgeGain = 1
  AgeCap = 6
  GeoPoints <- MCGeoPoints
  GeoGradients <- MCGeoGradients
  ModeLists <- MCModeLists
  Threshold = 10
  BERRY_HISTORY = 4
  MaxGeoOps <- MCGeoOps
  PortPids = {0, 1}
  KERNEL = 0
  PortNames = {"a", "aa"}
  str_copy <- MCStored
  PortSlots = {0, 1}
  ChannelSlots = {0}
  PortQueueMax = 2
  MaxPortIds = 2
  MaxChannelIds = 1
  MaxPortMessages = 2
SPECIFICATION PoolsSpec
INVARIANTS FilesSound FieldSound  AgedToTheFront LinesKeepOrder
PROPERTIES EvictsTheWeakest
CHECK_DEADLOCK FALSE
