CONSTANTS
  a = a
  b = b
  anon = anon
  speaker = speaker
  mic = mic
  Client <- None
  Anon = anon
  Device <- Both
  Directions <- AsNamed
  Covers <- Distinct
  MaxSeq = 4
  SubCap = 1
  CmdCap = 1
  InCap = 2
  RawCap = 1
  Outbound <- Peers
  CleanPeriod = 1
  MaxTime = 1
  WorldCap = 1
SPECIFICATION FairSpec
INVARIANT OutgoingInOrder
PROPERTY EndsUnlessBlocked
CHECK_DEADLOCK FALSE
