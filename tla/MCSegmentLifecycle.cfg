SPECIFICATION FairSpec
CONSTANTS
  Slots = 2
  MaxLives = 3
  MaxFrames = 3
INVARIANTS
  OnlyThisLife
  InBounds
  AheadOnlyIfOutlived
  ScriptIsSafe
PROPERTIES
  CatchUpUnlessHalfPublished
CHECK_DEADLOCK FALSE
