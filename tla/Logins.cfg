\* Four logins and Slack requests of two people, a failing call and two changes of
\* address.
SPECIFICATION Spec
CONSTANTS
  ann = ann
  bob = bob
  annNow = annNow
  annLater = annLater
  bobNow = bobNow
  i1 = i1
  i2 = i2
  i3 = i3
  zero = zero
  none = none
  r1 = r1
  r2 = r2
  r3 = r3
  r4 = r4
  People = {ann, bob}
  Mails <- Addresses
  Holder <- Owners
  Ids = {i1, i2, i3}
  Zero = zero
  NoOne = none
  Requests = {r1, r2, r3, r4}
  Faults = 1
  Moves = 2
SYMMETRY Interchangeable
INVARIANTS TypeOK WebAccountStable OneAccount TurnedAwayHasAccount
CHECK_DEADLOCK FALSE
