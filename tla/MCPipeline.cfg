SPECIFICATION Spec
CONSTANTS
  MaxBatch = 2
  MaxFrames = 6
  MaxRuns = 2
  MaxFlight = 3
  MaxStale = 3
CHECK_DEADLOCK FALSE
INVARIANTS OutputInOrder MissingIsUnsentOrLost OneSequence
