SPECIFICATION Spec
CONSTANTS
  MaxLines = 3
  BatchSize = 2
  Faults <- NoFaults
INVARIANT FinishFlushes
