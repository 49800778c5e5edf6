\* Every fault and early timers, in a file shorter than the number cycle.
CONSTANTS
  NBlocks = 4
  NumMod = 6
  RetryLimit = 3
  CrcMode = TRUE
  TailBytes <- CanTail
  FwdFaults = {"lose", "damage", "split", "behead", "rewrite"}
  RevFaults = {"lose", "rewrite"}
  Noise = {"EOT", "CAN", "JUNK"}
  MaxFaults = 2
  MaxLate = 2
SPECIFICATION FairSpec
INVARIANTS
  TypeOK
  PrefixInv
PROPERTY
  Terminates
CHECK_DEADLOCK FALSE
