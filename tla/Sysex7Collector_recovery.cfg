CONSTANTS
  Byte <- MCByte
  MaxPayload = 2
  MinCapacity = 4
  KeepCapacity = 5
  Limits = {0, 3, 5}
  MaxMessage = 7
SPECIFICATION Spec
INVARIANT RecoversAfterReject
