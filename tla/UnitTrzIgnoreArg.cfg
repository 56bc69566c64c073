CONSTANTS
  Event <- Events
  ActEvent = "EXE_ACT"
  NumArgs <- ArgsOf
  Group <- Groups
  GroupOf <- GroupMap
  SM = "SM"
  Arguments <- ArgumentsOf
  Ignorable <- SourceState
  MaxScript = 2
  MaxSeen = 2
SPECIFICATION Spec
INVARIANT NothingMissed
