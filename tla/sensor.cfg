SPECIFICATION FairSpec
CONSTANTS
  Buttons = {0, 1}
  Leds = {0}
  TxQueueSize = 2
  RxQueueSize = 1
  MaxAsked = 1
  MaxInputs = 3
INVARIANTS
  TypeOK
  PressStaysPending
PROPERTIES
  ReachesData
  PendingIsServed
