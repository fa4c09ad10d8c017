CONSTANTS
  Files <- SomeFiles
  Pids = {2, 3, 4, 5, 6}
  MainPids = {2, 5}
SPECIFICATION FairSpec
INVARIANTS TypeOK NothingUndefined ReadAsWritten OnePrimary PortsAreRead RightWayOut OwnLogs
PROPERTIES Terminates EveryStageRuns
CHECK_DEADLOCK FALSE
