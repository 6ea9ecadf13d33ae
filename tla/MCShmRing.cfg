CONSTANTS
  Slots = 2
  Readers = {edge, start}
  FromEdge = {edge}
  Words = {w1}
  frame_len = frame_len
  MaxPublish = 5
SPECIFICATION FairSpec
INVARIANTS
  CopyIsOfHolders
PROPERTIES
  ImplementsLog
  EmptyIsTruthful
  CatchUp
