\* The receiver's 'C' is lost.
CONSTANTS
  NBlocks = 2
  NumMod = 8
  RetryLimit = 3
  CrcMode = TRUE
  TailBytes <- DataTail
  FwdFaults = {}
  RevFaults = {"lose"}
  Noise = {}
  MaxFaults = 1
  MaxLate = 0
SPECIFICATION Spec
INVARIANT ModeAgreed
CHECK_DEADLOCK FALSE
