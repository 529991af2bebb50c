SPECIFICATION FairSpec
CONSTANTS
  Limit = 4
  MaxRuns = 2
  RequireBudget = 1
  NSteps = 2
  StepCap = 2
  MaxRetries = 1
  MaxRefines = 1
  Policies <- MCAll
  HostQueues <- MCQueues
  TriggerOnce = TRUE
  HostCallback = TRUE
INVARIANTS
  RefinesBounded
  ChecksPassed
  AbortFailsTask
  HandoffOfThisRun
PROPERTIES
  ImplementsContract
  Termination
