SPECIFICATION Spec
CONSTANTS
  EventCapacity = 1
  RingCapacity = 1
  MaxSamples = 2
PROPERTIES
  BufferedBeforePollFailure
