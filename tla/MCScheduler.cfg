CONSTANTS
  N = 4
  K = 2
  Quantum = 2
  Limited = {3}
  CpuLimit = 2
  Vsock = TRUE
  MaxGen = 2
  MaxWait = 12
SPECIFICATION FairSpec
INVARIANTS SchedulingSound BudgetHolds
PROPERTIES RotationAdvances
