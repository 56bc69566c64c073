CONSTANTS
  N <- RingSize
  Requests <- BlockReq
  Events <- Records
  MaxRecords = 3
SPECIFICATION Spec
INVARIANTS
  TypeOK
  Transparent
  LatestUnderstood
  GapsReported
CHECK_DEADLOCK FALSE
