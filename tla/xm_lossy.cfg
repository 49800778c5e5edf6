\* Frames and replies lost or damaged while timers run ahead of the answers.
CONSTANTS
  NBlocks = 7
  NumMod = 4
  RetryLimit = 3
  CrcMode = TRUE
  TailBytes <- DataTail
  FwdFaults = {"lose", "damage"}
  RevFaults = {"lose", "rewrite"}
  Noise = {"JUNK"}
  MaxFaults = 2
  MaxLate = 2
SPECIFICATION FairSpec
INVARIANTS
  StaleAcksBounded
  PrefixDelivered
CHECK_DEADLOCK FALSE
