SPECIFICATION Spec
CONSTANTS
  None = None
  MaxLinkRetries = 0
  MaxTxRetries = 2
  QueueSize = 4
  AllocMayFail = FALSE
  Statuses <- FlowStatuses
  Commands <- OneRequest
  MaxInputs = 4
  MaxIds = 2
INVARIANT
  SendHasDeadline
CHECK_DEADLOCK FALSE
