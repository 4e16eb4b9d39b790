SPECIFICATION FairSpec
CONSTANTS
  Req = {r1, r2}
  MaxSegments = 3
  BUFFER_SIZE_MAX = 2
  PollLimit = 1
INVARIANTS TypeOK ParallelCounts
PROPERTIES ImplementsPromise EveryRequestEnds
