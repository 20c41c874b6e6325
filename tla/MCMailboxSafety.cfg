\* Requests of every kind, in PREOP as fast as the sync manager takes them,
\* lost writes and reads, stops and starts.
SPECIFICATION Spec
CONSTANTS
  Kinds = {"sdo", "list", "info", "foe", "foeEnd", "bad", "long"}
  Buffers = {1, 2, 3, 4, 5, 6}
  HeapLow = "never"
  QueueSize = 4
  Counters = 3
  Fragments = 1
  Starts = {"preop", "boot"}
  Pipelined = {"preop"}
  MaxRequests = 3
  MaxLosses = 2
  MaxStops = 1
INVARIANT TypeOK
INVARIANT MemoryOwned
INVARIANT NothingRefused
INVARIANT PendingIsDriven
PROPERTY RequestsServedOnce
PROPERTY ImplementsReliable
