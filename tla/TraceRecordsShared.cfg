SPECIFICATION Spec
CONSTANTS
  Builds <- SharedBuild
  Files <- AllFiles
  Users <- AllUsers
  SizeofLong = 4
  MaxRuns = 2
  MaxHeld = 1
INVARIANT
  AcceptedConfiguration
CHECK_DEADLOCK FALSE
