SPECIFICATION FairSpec
CONSTANTS
  Roles <- AllRoles
  QueueSize = 3
  Turns = 2
  SweepStart <- FirstOffset
  SweepStop = 2
  SweepStep = 2
  TrimMax = 1
  Interrupts <- OfTheRadio
  Rssi <- Strengths
  WindowWrap = 4
  SeqWrap = 4
  SeqLimit = 3
CHECK_DEADLOCK FALSE
INVARIANTS
  TypeOK
  AverageIsOfSamples
  PayloadIsOfItsEvent
  NoEventIsDropped
PROPERTIES
  KeepsReporting
  SweepIsWhole
