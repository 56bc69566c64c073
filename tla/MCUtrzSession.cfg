CONSTANTS
  N = 6
  BlockReq = 8
  Records <- TestRecords
  UT_INIT = "UT_INIT"
  UnmetVerify = "UT_VERIFY"
  Bytes <- BytesOf
  Verdict <- VerdictsOf
  Builds <- BothBuilds
  FlagCutOff = FALSE
  MaxSessions = 3
  None = None
  EOF = EOF
SPECIFICATION Spec
CHECK_DEADLOCK FALSE
INVARIANTS
  TypeOK
  NothingLeft
PROPERTIES
  ImplementsJudge
  AlwaysAnswered
