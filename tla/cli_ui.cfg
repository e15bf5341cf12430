SPECIFICATION FairSpec
CONSTANTS
  Conns = {c1, c2, c3}
  None = None
  SidewalkObjects = 2
  MaxRequests = 2
INVARIANTS
  TypeOK
  OneNusSession
PROPERTIES
  ShipRequestEnds
CHECK_DEADLOCK FALSE
