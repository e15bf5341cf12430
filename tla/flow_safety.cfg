SPECIFICATION Spec
CONSTANTS
  None = None
  MaxLinkRetries = 0
  MaxTxRetries = 1
  QueueSize = 2
  AllocMayFail = TRUE
  Statuses <- AllStatuses
  Commands <- AllCommands
  MaxInputs = 4
  MaxIds = 2
INVARIANTS
  TypeOK
  FlowOwnership
PROPERTIES
  LoRaNeedsTime
  CompletesOwnSend
  RefinesFlowSend
CHECK_DEADLOCK FALSE
