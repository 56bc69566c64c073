SPECIFICATION Spec
CONSTANTS
  n1 = n1
  n2 = n2
  Objects <- TwoObjects
  Signals <- OneSignal
  Pools <- OnePool
  UserEvents <- OneEvent
  Names <- TwoNames
  Timers <- OneTimer
  MaxGiven = 2
SYMMETRY AnyNames
INVARIANTS
  TypeOK
  Named
  NoStrangeNames
  OnlyFirstSightGarbled
  DiagramWhole
  TimeoutRight
