\* The control word after OP is left.
SPECIFICATION Spec
CONSTANTS
  SyncModes <- SmOnly
  AckFreely = FALSE
  IdRequests = FALSE
  Mailboxes <- MailboxConfigs
  Timeout = 2
  PllTicks = 2
  Words <- TwoWords
  SafeWord = 0
INVARIANT SafeOutsideOp
