SPECIFICATION FairSpec
CONSTANTS
  EventCapacity = 1
  RingCapacity = 2
  MaxSamples = 3
PROPERTIES
  ConsumerServed
  ShutdownCompletes
