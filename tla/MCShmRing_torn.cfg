CONSTANTS
  Slots = 2
  Readers = {start}
  FromEdge = {}
  Words = {w1, w2}
  frame_len = frame_len
  MaxPublish = 4
SPECIFICATION Spec
INVARIANTS
  ConsistentCopy
