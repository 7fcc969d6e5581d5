SPECIFICATION Spec
CONSTANTS
  Tracepoints <- MCTracepoints
  RingCapacity = 1
  MaxFired = 1
  MIN_LANDLOCK_ID = 10
  None = None
  Root = Root
  Unsandboxed = Unsandboxed
  Invalid = Invalid
  Missing = Missing
INVARIANTS RecordsExact TextExact DenialShown
CHECK_DEADLOCK FALSE
