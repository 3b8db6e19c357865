SPECIFICATION FairSpec
CONSTANTS
  MaxLines = 5
  BatchSize = 2
  Faults <- AllFaults
INVARIANTS ConfirmedPrefix FinishCloses
PROPERTIES StreamSpec FinishReturns
