\* A block of a streamed file arrives damaged.
CONSTANTS
  Blocks <- OneFile
  Known = {1}
  Exact = {}
  NumMod = 8
  RetryLimit = 3
  GModes = {TRUE}
  FwdFaults = {"damage"}
  RevFaults = {}
  Noise = {}
  MaxFaults = 1
  MaxLate = 0
SPECIFICATION Spec
INVARIANT ReceivedIsWhole
CHECK_DEADLOCK FALSE
