CONSTANTS
  Bytes <- MCBytes
  Groups <- MCGroups
  Messages <- MCMessages
  Values <- MCValues
  PacketEnd = 4
  Reactions = {"none"}
  MaxBefore = 2
  MaxHeard = 4
SPECIFICATION ConversionSpec
INVARIANT TypeOK
INVARIANT WritePosition
PROPERTY ReportsWhatWasHeard
PROPERTY ComesBack
