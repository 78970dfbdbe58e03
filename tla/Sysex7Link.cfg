CONSTANTS
  Messages <- MCMessages
  MaxSize = 19
  MaxPayload = 6
  Byte <- MCByte
  MinCapacity = 12
  KeepCapacity = 20
  Limits = {0, 57}
  Faults = {"lost", "repeated"}
  MaxSent = 2
  MaxFaults = 2
SPECIFICATION FairSpec
CHECK_DEADLOCK FALSE
PROPERTY ImplementsChannel
