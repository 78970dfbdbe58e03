CONSTANTS
  Wrap = 4
  TickLength = 2
  InitialOffset = 1
  Offsets = {0, 3}
  Delays = {1, 2, 6}
  Horizon = 7
SPECIFICATION Spec
PROPERTY ScheduledInOrder
