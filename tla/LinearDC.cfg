SPECIFICATION Spec
CONSTANTS
  None = None
  Ground = 0
  MaxNumber = 12
  MaxOperations = 170
  MaxNonzeros = 16
  Volts <- MCVolts
  Networks <- MCNetworks
INVARIANTS SolvedIsOperatingPoint VerdictIsStructural GateAgrees
CHECK_DEADLOCK FALSE
