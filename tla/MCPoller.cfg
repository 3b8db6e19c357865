SPECIFICATION FairSpec
CONSTANTS
  Task = {t1, t2, t3}
  NoTask = NoTask
  Capacity = 1
  FetchFaults <- AllFaults
INVARIANTS SlotAccounting NoLostWakeup JoinedIsQuiet
PROPERTIES DispatchSpec ShutdownEnds FetchedIsSettled
