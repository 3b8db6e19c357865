SPECIFICATION Spec
CONSTANTS
  daemon = daemon
  run = run
  c1 = c1
  c2 = c2
  k1 = k1
  k2 = k2
  Server = {daemon}
  Purger = {daemon}
  Client = {c1, c2}
  Key = {k1, k2}
  NoKey = NoKey
  Home <- OneHome
  Restorer = {c2}
  KeyChoices <- SameOrOther
  Chunk = {1, 2}
  MaxUploads = 2
  MaxBlobs = 2
  MaxCrashes = 2
INVARIANTS RestoredWhole HitIsServable
PROPERTY StoreSpec
CHECK_DEADLOCK FALSE
