CONSTANTS
  a = a
  b = b
  anon = anon
  speaker = speaker
  mic = mic
  Client <- None
  Anon = anon
  Device <- Mic
  Directions <- AsNamed
  Covers <- Distinct
  MaxSeq = 3
  SubCap = 1
  CmdCap = 2
  InCap = 1
  RawCap = 1
  Outbound <- None
  CleanPeriod = 1
  MaxTime = 0
  WorldCap = 1
SPECIFICATION FairSpec
PROPERTY GracefulShutdown
CHECK_DEADLOCK FALSE
