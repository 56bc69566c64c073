SPECIFICATION Spec
CONSTANTS
  Builds <- AllBuilds
  Files <- AllFiles
  Users <- AllUsers
  SizeofLong = 4
  MaxRuns = 2
  MaxHeld = 1
INVARIANTS
  TypeOK
  KnowsTheBuild
  RightlyShown
  HeardFirst
CHECK_DEADLOCK FALSE
