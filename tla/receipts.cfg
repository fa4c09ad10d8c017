CONSTANTS
  AnyIp = 9
  AnyPort = 9
  Messages <- MessagesApart
  DropAfter = 3
  MaxReceipts = 4
SPECIFICATION Spec
INVARIANTS AckedExactly StoresReceipts
CHECK_DEADLOCK FALSE
