SPECIFICATION FairSpec
CONSTANTS
  FileIds = {f1, f2, f3}
  MaxTransfers = 2
  Unused = Unused
  Blocks = 1
  QueueSize = 8
  MaxInputs = 4
INVARIANTS
  TypeOK
  TransferIsKnown
  AnswersAreDue
PROPERTIES
  BlockComesBack
  FinalizeIsAnswered
CHECK_DEADLOCK FALSE
