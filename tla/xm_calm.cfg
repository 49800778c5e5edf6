\* A lossy line, and timers that wait for the answers on their way.
CONSTANTS
  NBlocks = 5
  NumMod = 4
  RetryLimit = 4
  CrcMode = FALSE
  TailBytes <- DataTail
  FwdFaults = {"lose", "damage"}
  RevFaults = {"lose", "rewrite"}
  Noise = {"JUNK"}
  MaxFaults = 3
  MaxLate = 0
SPECIFICATION FairSpec
INVARIANTS
  CalmInv
  SuccessIsMutual
  NoSilentTruncation
PROPERTIES
  KeepsPromise
  Completes
CHECK_DEADLOCK FALSE
