\* Transitions end and outputs arrive, in every mode.
SPECIFICATION FairSpec
CONSTANTS
  SyncModes <- AllModes
  AckFreely = FALSE
  IdRequests = FALSE
  Mailboxes <- OnOnly
  Timeout = 1
  PllTicks = 1
  Words <- TwoWords
  SafeWord = 0
PROPERTY WaitEnds
PROPERTY OutputsArrive
