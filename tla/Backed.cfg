SPECIFICATION Spec
CONSTANTS
  Budget <- RecreateBudget
  Lagging <- NothingLags
INVARIANTS
  RunningIsBacked
\* Users are free to do nothing: the system stops when all is at rest.
CHECK_DEADLOCK FALSE
