CONSTANTS
  AnyIp = 255
  AnyPort = 65535
  Scenarios <- All
  AuthSeqs = {1}
  LocalNet = {7}
SPECIFICATION Spec
INVARIANTS TypeOK RuleBeforePacket LeavesByItsRouter AnswersRequest NoLoop AcksAreOwn PortalFirst
PROPERTIES KeepsPromise
CHECK_DEADLOCK FALSE
