CONSTANTS
  a = a
  b = b
  anon = anon
  card = card
  Client <- TwoClients
  Anon = anon
  Device <- Card
  Directions <- EitherWay
  Covers <- Prefix
  MaxSeq = 1
  SubCap = 1
  CmdCap = 1
  InCap = 1
  RawCap = 1
SPECIFICATION ThreadFairSpec
PROPERTY RequestAnswered
CHECK_DEADLOCK FALSE
