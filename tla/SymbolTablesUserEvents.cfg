SPECIFICATION Spec
CONSTANTS
  n1 = n1
  n2 = n2
  Objects <- OneTimer
  Signals <- OneSignal
  Pools <- OnePool
  UserEvents <- TwoEvents
  Names <- TwoNames
  Timers <- OneTimer
  MaxGiven = 2
SYMMETRY AnyNames
INVARIANT UserEventsApart
