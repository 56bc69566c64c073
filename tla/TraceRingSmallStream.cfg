CONSTANTS
  N <- RingSize
  Byte <- Bytes
  FLG = 126
  Requests <- SmallStreamReq
SPECIFICATION FairSpec
PROPERTY Drains
