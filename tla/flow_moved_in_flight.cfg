SPECIFICATION Spec
CONSTANTS
  None = None
  MaxLinkRetries = 0
  MaxTxRetries = 2
  QueueSize = 4
  AllocMayFail = FALSE
  Statuses <- SwitchStatuses
  Commands <- SetThenSend
  MaxInputs = 4
  MaxIds = 2
PROPERTY
  FallsBackWhenUnavailable
CHECK_DEADLOCK FALSE
