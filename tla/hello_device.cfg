SPECIFICATION FairSpec
CONSTANTS
  FileIds = {f1}
  MaxTransfers = 2
  Unused = Unused
  Blocks = 2
  QueueSize = 2
  None = None
  Others <- Handlers
  Reboot <- RebootHandler
  BootQueue <- Boot
  MaxTransferNo = 2
  Links <- Radios
  DefaultMask <- Default
  NextMask <- Switched
  Missing <- NoMask
  MaxPresses = 2
  MaxCuts = 1
CHECK_DEADLOCK FALSE
INVARIANTS
  TypeOK
  ScratchIsOwned
  FinalizedIsWhole
  KeptImageWorks
PROPERTIES
  RefinesDfu
  MaskComesBack
  BlockComesBack
