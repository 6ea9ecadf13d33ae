SPECIFICATION Spec
CONSTANTS
  FrameSizes = {192, 576}
  AddressWords = {0, 255, 43200, 65535}
  Batching = TRUE
  MaxPackets = 2
INVARIANTS
  HeaderVerifies
  ArrivesWhole
CHECK_DEADLOCK FALSE
