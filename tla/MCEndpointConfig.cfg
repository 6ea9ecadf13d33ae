SPECIFICATION ParserSpec
CONSTANTS
  Numbers = {0, 1, 6, 8, 16}
  Addresses = {"10.0.0.1", "10.0.0.2"}
  Macs <- MCMacs
  SlotBits = 4
  MaxPort = 7
  MaxBatching = 2
INVARIANTS
  AcceptsExactlySound
CHECK_DEADLOCK FALSE
