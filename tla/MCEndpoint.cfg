SPECIFICATION Spec
CONSTANTS
  a = a
  b = b
  s = s
  Procs = {a, b, s}
  NoProc = NoProc
  Role <- MCRole
INVARIANTS
  PoolOutlivesDevice
  AllReleased
  SegmentStaysLinked
SYMMETRY Symmetry
CHECK_DEADLOCK FALSE
