\* One request after the other, reads lost.
SPECIFICATION FairSpec
CONSTANTS
  Kinds = {"sdo", "list", "foeEnd"}
  Buffers = {1, 2, 3, 4, 5, 6}
  HeapLow = "never"
  QueueSize = 4
  Counters = 3
  Fragments = 2
  Starts = {"preop"}
  Pipelined = {"preop"}
  MaxRequests = 3
  MaxLosses = 1
  MaxStops = 0
PROPERTY AnswersArrive
PROPERTY RequestsTaken
