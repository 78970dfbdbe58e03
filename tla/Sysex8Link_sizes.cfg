CONSTANTS
  Messages <- MCAllMessages
  Streams = {0, 1}
  MaxPayload = 13
  Byte <- MCByte
  MinCapacity = 26
  KeepCapacity = 30
  Limits = {}
  MaxMessage = 0
  MaxSent = 1
SPECIFICATION LinkSpec
INVARIANT CollectsEveryMessage
CHECK_DEADLOCK FALSE
