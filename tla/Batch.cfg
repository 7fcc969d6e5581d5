SPECIFICATION BatchSpec
CONSTANTS
  Events <- MCEvents
  None = None
  Root = Root
  Unsandboxed = Unsandboxed
  Capacity = 1
  MaxSequence = 3
  MaxCount = 2
  MaxEvents = 4
INVARIANTS AllocatedCounted ReaderCurrent LinesTellNews
CHECK_DEADLOCK FALSE
