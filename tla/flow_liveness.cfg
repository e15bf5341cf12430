SPECIFICATION FairSpec
CONSTANTS
  None = None
  MaxLinkRetries = 1
  MaxTxRetries = 1
  QueueSize = 8
  AllocMayFail = FALSE
  Statuses <- FlowStatuses
  Commands <- FlowCommands
  MaxInputs = 3
  MaxIds = 3
INVARIANTS
  WaitHasTimer
  AwaitedResultComes
  PutsBounded
PROPERTIES
  WaitEnds
CHECK_DEADLOCK FALSE
