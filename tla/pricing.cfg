SPECIFICATION Spec
CONSTANTS
  Candidates <- McCandidates
  Quotes <- McQuotes
  Grids <- McGrids
  Lots <- McLots
  SlippagePct = 2
  ReversePct = 5
  BufferPct = 2
  Improve = 5
INVARIANTS KnownGridIsMet BookedIsPaid AdverseByRounding OrdersReach
CHECK_DEADLOCK FALSE
