CONSTANTS
  AnyIp = 9
  AnyPort = 9
  Entries <- ApartEntries
  Codes = {3}
  Ports = {0}
SPECIFICATION Spec
INVARIANTS TypeOK LookupExact
PROPERTIES ImplementsFlowMap
