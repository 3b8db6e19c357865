SPECIFICATION FairSpec
CONSTANTS
  Job <- TwoJobs
  Action <- Remote
  Rooted <- Root
  Bases = 1
  Stuck <- ManifestStuck
  Def <- Defs
  Writer <- Writers
  Scenario <- Scenarios
  MaxDepth = 2
  MaxCrashes = 1
INVARIANTS FetchedWhole OutputsKept EnvVisible ActionResultIsTrue
PROPERTY ActionEnds
