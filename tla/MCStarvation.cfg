CONSTANTS
  N = 4
  K = 2
  Quantum = 2
  Limited = {}
  CpuLimit = 3
  Vsock = TRUE
  MaxGen = 1
  MaxWait = 0
SPECIFICATION FairSpec
PROPERTIES NoStarvation
