SPECIFICATION Spec
CONSTANTS
  EventCapacity = 2
  RingCapacity = 2
  MaxSamples = 5
INVARIANTS
  LossNoticeExact
  NothingVanishes
  NoReportLost
  TrailingLossReported
  PanicsReported
  StopIsLast
  DisconnectedIsFinal
PROPERTIES
  KeepsPromise
