SPECIFICATION FairSpec
CONSTANTS
  NumJobs = 3
  Workflow <- Workflows
  MaxAttempts = 2
INVARIANTS ScheduleCorrect StartsAllowed SuccessIsTrue CancelReachesAll
PROPERTY CommandEnds
