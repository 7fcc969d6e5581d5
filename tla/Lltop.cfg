SPECIFICATION FairLltopSpec
CONSTANTS
  EventCapacity = 1
  RingCapacity = 2
  MaxSamples = 3
  MAX_READY_EVENTS_PER_CYCLE = 2
INVARIANTS
  ExitsClean
  CauseTold
PROPERTIES
  ProcessEnds
