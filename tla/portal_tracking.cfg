CONSTANTS
  AnyIp = 255
  AnyPort = 65535
  Scenarios <- Tracking
  AuthSeqs = {1}
  LocalNet = {7}
SPECIFICATION Spec
INVARIANT Tracked
CHECK_DEADLOCK FALSE
