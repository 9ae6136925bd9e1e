SPECIFICATION FairSpec
CONSTANTS
  Buffers = 5
  LatencyBlocks = 2
  FileBatch = 4
  Settings <- MC_Settings
INVARIANTS
  NothingIsShared
  ClipIsTheTake
  FileFollowsTake
  NoFault
PROPERTIES
  TakeIsLoaded
CHECK_DEADLOCK FALSE
