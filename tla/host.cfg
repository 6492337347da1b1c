SPECIFICATION FairSpec
CONSTANTS
  Card <- Cards
  NoCard = "none"
  MaxIn <- MCMaxIn
  MaxOut <- MCMaxOut
  DefaultIn = "mic"
  DefaultOut = "speaker"
  DefaultPort = 3
  UShort = 7
  MaxCount = 8
  Instance = {"first", "second"}
  CommandLine <- MCCommandLine
  Attempts = 2
  Occupied <- MCOccupied
  SizeMod = 50
  MaxStarts = 1
  MaxBuffers = 2
INVARIANTS HostTypeOK FirstPortNotRefused ChannelsExist LinesMeetOnDistinctCards LogsTellTheirSize
PROPERTY SearchEnds
