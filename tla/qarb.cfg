CONSTANTS
  a = a
  b = b
  Client <- TwoClients
  DataLen = 4
  ReadSizes <- OneToAll
  WriteSizes <- OneToThree
  MaxSamples = 4
SPECIFICATION Spec
INVARIANTS QARBTypeOK NobodyBeyondFarthest
PROPERTY ImplementsTimeline
SYMMETRY Symmetry
CHECK_DEADLOCK FALSE
