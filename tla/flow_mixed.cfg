CONSTANTS
  AnyIp = 9
  AnyPort = 9
  Entries <- MixedEntries
  Codes = {1}
  Ports = {0}
SPECIFICATION Spec
INVARIANTS HitExists
