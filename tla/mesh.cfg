CONSTANTS
  a = a
  b = b
  Node <- Two
  Targets <- Mutual
  MaxRuns = 3
SPECIFICATION FairSpec
INVARIANTS MeshInv AcyclicLinks
PROPERTIES EventuallyServes ServingTargetAnswers
CHECK_DEADLOCK FALSE
