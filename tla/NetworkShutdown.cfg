CONSTANTS
  FieldOrder <- MCFieldOrder
  Required <- MCRequired
  ValueList <- MCValueList
  Empty = ""
  PacketSize = 6
  BuffSigSize = 1
  Width = 16
  MaxWrites = 1
  MaxPackets = 2
SPECIFICATION Spec
INVARIANT AllDispatched
CHECK_DEADLOCK FALSE
