CONSTANTS
  Messages <- MCFewMessages
  Streams = {0, 1}
  MaxPayload = 13
  Byte <- MCByte
  MinCapacity = 26
  KeepCapacity = 30
  Limits = {}
  MaxMessage = 0
  MaxSent = 3
SPECIFICATION LinkSpec
INVARIANTS StreamsKeptApart DeliveredUnlessCut
CHECK_DEADLOCK FALSE
