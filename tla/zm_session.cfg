\* Two sessions of a batch of two files, on a line with faults that is cut.
CONSTANTS
  Sizes <- TwoFiles
  Dest <- TwoNames
  SubSize = 2
  OffsetMod = 8
  RetryLimit = 3
  FwdFaults = {"lose", "damage"}
  RevFaults = {"lose", "damage"}
  Foreign = {"ZSKIP", "ZABORT", "ZCAN"}
  MaxFaults = 2
  MaxLate = 1
  MaxSessions = 2
SPECIFICATION FairSpec
INVARIANTS
  TypeOK
  FailsForCause
  SenderKnows
PROPERTIES
  KeepsPromise
  Terminates
CHECK_DEADLOCK FALSE
