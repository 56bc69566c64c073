CONSTANTS
  a1 = a1
  a2 = a2
  AO <- Objects
  Signal = {"REQ", "RSP"}
  Ways <- FifoOnly
  NSEQ = 3
  Capacity = 2
  MaxRecords = 5
  MaxBoots = 2
SPECIFICATION Spec
SYMMETRY ObjectSwaps
INVARIANTS
  TypeOK
  RightTime
  AllTimed
CHECK_DEADLOCK FALSE
