CONSTANTS
  Byte <- MCByte
  Streams = {0, 1}
  MaxPayload = 2
  MinCapacity = 4
  KeepCapacity = 5
  Limits = {0, 1, 3}
  MaxMessage = 5
SPECIFICATION Spec
INVARIANTS TypeOK WithinCapacity ExactDelivery DeliveredIffEnded
PROPERTIES NoEarlyReject GrowthWithinLimit
