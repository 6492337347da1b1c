CONSTANTS
  a = a
  b = b
  anon = anon
  card = card
  Client <- WithAnon
  Anon = anon
  Device <- Card
  Covers <- Distinct
  MaxSeq = 2
  SubCap = 1
  CmdCap = 2
  InCap = 1
  Outbound <- None
  CleanPeriod = 1
  MaxTime = 2
  WorldCap = 1
SPECIFICATION BrokerSpec
INVARIANT AllListenedTo
CHECK_DEADLOCK FALSE
