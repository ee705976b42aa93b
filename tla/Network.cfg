CONSTANTS
  FieldOrder <- MCFieldOrder
  Required <- MCRequired
  ValueList <- MCValueList
  Empty = ""
  PacketSize = 6
  BuffSigSize = 1
  Width = 16
  MaxWrites = 3
  MaxPackets = 3
SPECIFICATION FairSpec
INVARIANTS PacketsDecode HandedOverInOrder AbortOnlyInShutdown
PROPERTIES PushedIsTaken
CHECK_DEADLOCK FALSE
