\* one page that does not answer the request of the discovery
SPECIFICATION IngestSpec
CONSTANTS
  Pages = {1, 2, 3}
  Seed = 1
  Sites <- MCSites
  Scopes <- MCScopes
  Plans <- MCPlans
  Given <- MCGiven
INVARIANTS PageNeverFailsCrawl
CHECK_DEADLOCK FALSE
