CONSTANTS
  a = a
  b = b
  c = c
  d = d
  Client <- FourClients
  Sorted <- InOrder
  IdLen <- Lengths
  Byte = 4
  QueueCap = 2
SPECIFICATION Spec
INVARIANT FramesInStep
PROPERTY ImplementsQueue
CHECK_DEADLOCK FALSE
