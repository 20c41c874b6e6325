SPECIFICATION Spec
CONSTANTS
  BitCount = 2
  WordBits = 3
  TimeoutTicks = 1
  PollTicks = 1
  Cuts <- MCCuts
  EchoChecked = TRUE
  TxMayStall = TRUE
  Interlocked <- ChargeNeeded
  BmsBit = 1
  MaxFaults = 2
  MaxUpdates = 2
INVARIANTS
  TypeOK
  AppliedIsOnBoard
PROPERTIES
  PublishedIsSettled
  ImplementsCoilSync
