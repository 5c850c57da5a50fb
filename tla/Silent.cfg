\* One message.
SPECIFICATION Spec
CONSTANTS
  Events = {event}
  Notices = {}
  Visits = {}
  Volume <- TwoUpOneDown
  Window = 1
  Load = 1
INVARIANT Answered
CHECK_DEADLOCK FALSE
