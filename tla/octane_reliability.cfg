CONSTANTS
  r1 = r1
  ping = ping
  pong = pong
  tcp = tcp
  reply = reply
  fwd = fwd
  rev = rev
  other = other
  Secondaries = {r1}
  Flows = {ping, pong}
  Rules = {fwd, rev, reply}
  Plans <- PairPlans
  ReverseOf <- PairReverse
  Target <- PairTarget
  DropAfter = 1
  SeqSpace = 8
  RTO = 1
  Idle = 2
  RcvBuf = 3
  Lossy = TRUE
  Prompt = TRUE
SPECIFICATION FairSpec
PROPERTIES Reliable
