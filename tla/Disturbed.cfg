SPECIFICATION Spec
CONSTANTS
  Budget <- DisturbedBudget
  Lagging <- DeploymentLags
INVARIANTS
  NoticesExact
  LeftAloneOnlyRunning
  EditsReachTemplate
  DeletionRemovesNamespace
\* Users are free to do nothing: the system stops when all is at rest.
CHECK_DEADLOCK FALSE
