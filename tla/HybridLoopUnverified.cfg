SPECIFICATION Spec
CONSTANTS
  Limit = 4
  MaxRuns = 2
  RequireBudget = 1
  NSteps = 2
  StepCap = 2
  MaxRetries = 1
  MaxRefines = 1
  Policies <- MCPolicies
  HostQueues <- MCNoQueue
  TriggerOnce = TRUE
  HostCallback = FALSE
INVARIANTS
  VerifiedExit
