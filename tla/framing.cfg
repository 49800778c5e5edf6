\* Three sequences of items, one byte lost or changed anywhere, or one early timer.
CONSTANTS
  Batches <- AllBatches
  NoiseBytes = {13, 17, 24, 66, 104, 106, 200}
  ScanLimit = 22
  MaxFaults = 1
SPECIFICATION Spec
INVARIANTS
  TypeOK
  TokenLine
  CleanDelivery
  CrcTablesAgree
CHECK_DEADLOCK FALSE
