\* Two of a visit, a message and a notice, and a signal at any time, with fairness.
SPECIFICATION FairSpec
CONSTANTS
  Events = {event}
  Notices = {notice}
  Visits = {visit1}
  Volume <- TwoUpOneDown
  Window = 1
  Load = 2
INVARIANTS TypeOK SilenceHasCause RedirectsEnd InOrder HungUpAfterLastWord
PROPERTIES JobsEnd EndsTogether Stops
CHECK_DEADLOCK FALSE
