SPECIFICATION Spec
CONSTANTS
  n1 = n1
  n2 = n2
  Objects <- TwoObjects
  Signals <- TwoSignals
  Pools <- OnePool
  UserEvents <- OneEvent
  Names <- TwoNames
  Timers <- OneTimer
  MaxGiven = 2
SYMMETRY AnyNames
INVARIANTS
  Named
  NoStrangeNames
  DiagramWhole
  TimeoutRight
