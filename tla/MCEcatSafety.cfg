\* Every configuration, every request, every synchronisation mode.
SPECIFICATION Spec
CONSTANTS
  SyncModes <- AllModes
  AckFreely = FALSE
  IdRequests = TRUE
  Mailboxes <- MailboxConfigs
  Timeout = 2
  PllTicks = 2
  Words <- OneWord
  SafeWord = 0
INVARIANT TypeOK
INVARIANT HandlersFollowState
INVARIANT WaitIsTimed
PROPERTY ErrorsAwaitAck
PROPERTY ImplementsAlStatus
