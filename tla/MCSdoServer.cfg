SPECIFICATION FairSpec
CONSTANTS
  Used = {"x1C32", "x1008"}
  Jobs <- MCJobs
  ReceiveSize = 36
  SendSize = 42
  HeapLow = TRUE
  MaxTransfers = 3
  MaxFaults = 2
  MaxTicks = 1
INVARIANT TypeOK
INVARIANT ReadIsWhole
INVARIANT DownloadIsStored
INVARIANT HeapBalanced
INVARIANT FailsIffIllegal
PROPERTY WriteIsWhole
PROPERTY TransfersEnd
CHECK_DEADLOCK FALSE
