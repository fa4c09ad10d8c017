CONSTANTS
  r1 = r1
  ping = ping
  pong = pong
  tcp = tcp
  reply = reply
  fwd = fwd
  rev = rev
  other = other
  Secondaries = {r1}
  Flows = {ping, tcp}
  Rules = {fwd, rev, other}
  Plans <- TwoPlans
  ReverseOf <- TwoReverse
  Target <- TwoTarget
  DropAfter = 3
  SeqSpace = 8
  RTO = 2
  Idle = 3
  RcvBuf = 3
  Lossy = FALSE
  Prompt = FALSE
SPECIFICATION Spec
PROPERTIES OnlyExpiredExecuted
