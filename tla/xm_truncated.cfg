\* A timer that fired early, then the last block lost: receive() returns a part of the file.
CONSTANTS
  NBlocks = 3
  NumMod = 8
  RetryLimit = 3
  CrcMode = FALSE
  TailBytes <- DataTail
  FwdFaults = {"lose"}
  RevFaults = {}
  Noise = {}
  MaxFaults = 1
  MaxLate = 1
SPECIFICATION Spec
INVARIANT NoSilentTruncation
CHECK_DEADLOCK FALSE
