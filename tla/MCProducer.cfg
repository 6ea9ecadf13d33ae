SPECIFICATION ProducerSpec
CONSTANTS
  Options <- MCOptions
  kind = "mixed"
  MaxSetBacks = 2
  DeltaRange = 8
  MaxTime = 6
  MaxReads = 9
INVARIANTS
  NeverEarly
  ExchangeTimeSurvives
  SameMarketData
  AggregatesSurviveLoss
CHECK_DEADLOCK FALSE
