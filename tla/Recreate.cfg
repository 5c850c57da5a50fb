SPECIFICATION Spec
CONSTANTS
  Budget <- RecreateBudget
  Lagging <- NamespaceLags
INVARIANTS
  TypeOK
  FinalizerHeld
  LeftAloneOnlyRunning
PROPERTIES
  NamespaceDeletedOnRequest
  ImplementsLifecycle
\* Users are free to do nothing: the system stops when all is at rest.
CHECK_DEADLOCK FALSE
