\* A ring of four bytes that the line goes round three times.
SPECIFICATION Spec
CONSTANTS
  Size = 4
  MaxLen = 6
  Wrap = 64
  MaxBytes = 12
  MaxFront = 8
INVARIANT TypeOK
INVARIANT ReceivedIsNext
PROPERTY AvailableIsUnread
