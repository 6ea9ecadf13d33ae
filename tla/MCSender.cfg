CONSTANTS
  Slots = 2
  FrameSize <- RawSizes
  PayloadCapacity = 4
  batching_enabled = TRUE
  TxMbufs = 2
  TxDesc = 2
  ReserveMayFail = TRUE
  MaxPublish = 5
SPECIFICATION FairSpec
INVARIANTS
  BatchContiguous
  SentOnceInOrder
  GapsOnWireAreUnsent
  EveryFrameAccounted
  MissingIsExact
  MbufsConserved
  ViewsAreFresh
PROPERTIES
  StopEnds
  NothingLingers
CHECK_DEADLOCK FALSE
