CONSTANTS
  Files <- MCFiles
  Size <- MCSize
  Version <- MCVersion
  Hashed <- MCFiles
  Shipped = {"old"}
  Downloads = {"new", "newer"}
  Block = 2
  ReadBlock = 3
  MaxFile = 6
  MaxFaults = 2

SPECIFICATION Spec
INVARIANTS TypeOK InStep UploadIsWhole
PROPERTIES FinishedIsInstalled ImplementsAtomicUpdate RetrySucceeds
