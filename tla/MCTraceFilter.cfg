CONSTANTS
  Offset <- Offsets
  Range <- Ranges
  Bytes = 17
  Event <- EventSet
  Kind <- Kinds
  Size <- TableSize
  GroupArg <- Groups
  EventArg <- Events
  SlotArg <- Slots
SPECIFICATION Spec
INVARIANT TypeOK
PROPERTY SwitchesLikeEventFilter
