CONSTANTS
  RX_BURST_SIZE = 2
  RxDesc = 2
  RxMbufs = 5
  RecordCount <- OneOrTwoRecords
  MaxSent = 3
  MaxCopies = 2
  MaxForeign = 1
SPECIFICATION FairSpec
INVARIANTS
  WholePackets
  PacketsAccounted
  MissingIsExact
  MbufsConserved
PROPERTIES
  ImplementsChannel
  StopEnds
CHECK_DEADLOCK FALSE
