CONSTANTS
  Slots = 2
  Counts = {0, 3}
  idle_ns = 1
  DefaultCapacity = 3
  TimeWrap = 16
  MaxPublish = 5
  MaxGap = 2
  MaxTime = 3
SPECIFICATION Spec
INVARIANTS
  DropsAreExact
  SamplesAccounted
  IdleUnlessStepped
CHECK_DEADLOCK FALSE
