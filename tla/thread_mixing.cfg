CONSTANTS
  a = a
  b = b
  anon = anon
  card = card
  Client <- TwoClients
  Anon = anon
  Device <- Card
  Directions <- AllPlay
  Covers <- Distinct
  MaxSeq = 3
  SubCap = 1
  CmdCap = 1
  InCap = 1
  RawCap = 1
SPECIFICATION ThreadSpec
INVARIANTS ThreadTypeOK InOrder FlagTruth NoIdleBacklog Running
SYMMETRY Symmetry
CHECK_DEADLOCK FALSE
