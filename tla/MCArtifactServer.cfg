SPECIFICATION Spec
CONSTANTS
  r1 = r1
  r2 = r2
  r3 = r3
  n1 = n1
  n2 = n2
  Run = {r1, r2, r3}
  NoRun = NoRun
  Name = {n1, n2}
  NameChoices <- Shared
  MaxIds = 4
  MaxCrashes = 2
INVARIANT ArtifactWhole
PROPERTY FinalizedIsFixed
CHECK_DEADLOCK FALSE
