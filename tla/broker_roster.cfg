CONSTANTS
  a = a
  b = b
  anon = anon
  card = card
  Client <- TwoClients
  Anon = anon
  Device <- Card
  Covers <- Distinct
  MaxSeq = 2
  SubCap = 1
  CmdCap = 2
  InCap = 1
  Outbound <- None
  CleanPeriod = 1
  MaxTime = 5
  WorldCap = 1
SPECIFICATION BrokerSpec
INVARIANTS BrokerTypeOK RetentionInv RetentionBound ListCurrent
PROPERTY CulledOnlyWhenSilent
SYMMETRY Symmetry
CHECK_DEADLOCK FALSE
