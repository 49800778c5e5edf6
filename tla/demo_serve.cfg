\* Two clients of a server that serves one turn or for ever, any rich and Python.
CONSTANTS
  Clients = {c1, c2}
  NFiles = 2
  Modes <- Either
  Lacks <- AllOrButLast
  Nesting <- Either
  WaitClosed <- Either
  MaxFaults = 2
SPECIFICATION FairSpec
INVARIANTS
  TypeOK
  NobodyLeftBehind
  DisplaysStopped
  CleanClientSucceeds
PROPERTIES
  ClientsEnd
  SingleShotReturns
CHECK_DEADLOCK FALSE
