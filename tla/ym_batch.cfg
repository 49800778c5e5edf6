\* A batch of three files, acknowledged block by block, on a faulty line.
CONSTANTS
  Blocks <- ThreeFiles
  Known = {1}
  Exact = {2}
  NumMod = 5
  RetryLimit = 3
  GModes = {FALSE, TRUE}
  FwdFaults = {"lose", "damage"}
  RevFaults = {"lose", "rewrite"}
  Noise = {"CAN", "JUNK"}
  MaxFaults = 2
  MaxLate = 2
SPECIFICATION FairSpec
INVARIANTS
  TypeOK
  FilesUnmixed
  AckedIsWhole
  SenderKnows
PROPERTY Terminates
CHECK_DEADLOCK FALSE
