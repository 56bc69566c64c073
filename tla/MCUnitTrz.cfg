CONSTANTS
  Event <- Events
  ActEvent = "EXE_ACT"
  NumArgs <- ArgsOf
  Group <- Groups
  GroupOf <- GroupMap
  SM = "SM"
  Arguments <- ArgumentsOf
  Ignorable <- LastArgs
  MaxScript = 2
  MaxSeen = 2
SPECIFICATION Spec
INVARIANTS
  TypeOK
  ListIsRest
  NothingMissed
  NoFalseAlarm
PROPERTY VerifiedMeansMet
