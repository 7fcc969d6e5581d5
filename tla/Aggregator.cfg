SPECIFICATION Spec
CONSTANTS
  Capacity = 2
  MaxSequence = 4
  MaxCount = 2
  MaxEvents = 6
  Events <- MCEvents
INVARIANTS RecencyExact MostRecentRetained EntryFactsExact
CHECK_DEADLOCK FALSE
