\* An owner with an instance and an admin without one, three requests of any kind
\* between them.
SPECIFICATION Spec
CONSTANTS
  ann = ann
  root = root
  c1 = c1
  c2 = c2
  none = none
  r1 = r1
  r2 = r2
  r3 = r3
  Users = {ann, root}
  Admins = {root}
  Veterans = {ann}
  Configs = {c1, c2}
  NoConfig = none
  Requests = {r1, r2, r3}
  Faults = 1
  Reports = 1
SYMMETRY Interchangeable
INVARIANTS TypeOK GenerationIdentifiesConfig
PROPERTY ImplementsRegistry
CHECK_DEADLOCK FALSE
