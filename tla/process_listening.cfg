CONSTANTS
  a = a
  b = b
  anon = anon
  speaker = speaker
  mic = mic
  Client <- OneClient
  Anon = anon
  Device <- Speaker
  Directions <- AsNamed
  Covers <- Distinct
  MaxSeq = 3
  SubCap = 1
  CmdCap = 2
  InCap = 1
  RawCap = 1
  Outbound <- None
  CleanPeriod = 1
  MaxTime = 4
  WorldCap = 1
SPECIFICATION FairSpec
INVARIANT MapsAgree
PROPERTIES ThreadsKeepToBrokerSpec BrokerKeepsToThreadSpec EventuallyListens QueuedIsPlayed ImplementsPlayout
CHECK_DEADLOCK FALSE
