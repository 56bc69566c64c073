CONSTANTS
  N = 6
  BlockReq = 8
  Records <- TestRecords
  UT_INIT = "UT_INIT"
  UnmetVerify = "UT_VERIFY"
  Bytes <- BytesOf
  Verdict <- VerdictsOf
  Builds <- LibraryOnly
  FlagCutOff = FALSE
  MaxSessions = 3
  None = None
  EOF = EOF
SPECIFICATION Spec
PROPERTIES
  UnusedReported
