SPECIFICATION Spec
CONSTANTS
  Job <- ScriptJob
  Stream <- TwoStreams
  MaxOut = 1
  WaitOk <- Reaps
INVARIANT CancelKillsStep
