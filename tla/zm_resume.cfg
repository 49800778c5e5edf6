\* A second session over a file that arrived whole.
CONSTANTS
  Sizes <- OneFile
  Dest <- OneName
  SubSize = 2
  OffsetMod = 8
  RetryLimit = 3
  FwdFaults = {}
  RevFaults = {}
  Foreign = {}
  MaxFaults = 0
  MaxLate = 0
  MaxSessions = 2
SPECIFICATION Spec
INVARIANT CleanSessionSucceeds
CHECK_DEADLOCK FALSE
