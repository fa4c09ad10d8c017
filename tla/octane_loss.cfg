CONSTANTS
  r1 = r1
  ping = ping
  pong = pong
  tcp = tcp
  reply = reply
  fwd = fwd
  rev = rev
  other = other
  Secondaries = {r1}
  Flows = {ping, tcp}
  Rules = {fwd, other}
  Plans <- SinglePlans
  ReverseOf <- SingleReverse
  Target <- SingleTarget
  DropAfter = 2
  SeqSpace = 8
  RTO = 1
  Idle = 2
  RcvBuf = 2
  Lossy = TRUE
  Prompt = FALSE
SPECIFICATION Spec
INVARIANTS TypeOK TimersMatchUnAck NeverExecuteEmpty AckedIsInstalled NothingForgotten IdleExitIsClean
PROPERTIES OnlyOwnAckStops ImplementsRuleInstall
