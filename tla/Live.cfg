SPECIFICATION FairSpec
CONSTANTS
  Budget <- RetryBudget
  Lagging <- NamespaceLags
INVARIANTS
  IInv
PROPERTIES
  DeletionCompletes
  BecomesRunning
\* Users are free to do nothing: the system stops when all is at rest.
CHECK_DEADLOCK FALSE
