SPECIFICATION QsvSpec
CONSTANTS
  CircuitQubits = {1}
  QBits = 3
  MaxDenominator = 2
  MaxCircuitH = 6
  MaxCircuitOps = 12
INVARIANT AmplitudeExact
CHECK_DEADLOCK FALSE
