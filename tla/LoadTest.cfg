SPECIFICATION FairSpec
CONSTANTS
  Workers = {w1, w2}
  Requests = 5
  Warmup = 1
  Runs = 2
  Responses <- MCResponses
CHECK_DEADLOCK FALSE
INVARIANTS
  ResultsClosedLast
  SummaryAddsUp
  ExitHonest
PROPERTIES
  Terminates
