SPECIFICATION FairSpec
CONSTANTS
  Goroutines = {g1, g2, g3}
  StallThreshold = 2
  MaxClock = 3
  MaxCalls = 4
  MaxConcurrent = 2
  MaxRequests = 3
CHECK_DEADLOCK FALSE
INVARIANTS
  OldestTracked
  CallsWithinSlots
  SlotsAccounted
  CountsComplete
PROPERTIES
  StallNoticed
  StallClears
  NoneWaitsForAnother
