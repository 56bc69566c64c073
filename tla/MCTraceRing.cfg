CONSTANTS
  N <- RingSize
  Byte <- Bytes
  FLG = 126
  Requests <- BlockReq
SPECIFICATION FairSpec
INVARIANTS
  TypeOK
  BlockInArray
  RingShape
  LentIntact
PROPERTIES
  ImplementsRecentHistory
  Drains
