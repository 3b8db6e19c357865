SPECIFICATION FairSpec
CONSTANTS
  Task = {t1, t2}
  NoTask = NoTask
  Capacity = 1
  FetchFaults <- NoFaults
PROPERTY PendingIsFetched
