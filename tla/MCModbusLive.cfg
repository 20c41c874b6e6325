SPECIFICATION FairSpec
CONSTANTS
  BitCount = 2
  WordBits = 3
  TimeoutTicks = 1
  PollTicks = 1
  Cuts <- MCCuts
  EchoChecked = TRUE
  TxMayStall = FALSE
  Interlocked <- NoInterlock
  BmsBit = 1
  MaxFaults = 2
  MaxUpdates = 2
PROPERTIES
  CoilsConverge
  PollsForEver
