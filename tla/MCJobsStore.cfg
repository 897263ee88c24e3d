\* both stores, every overlap of two requests and two workers on one job
SPECIFICATION FairSpec
CONSTANTS
  Jobs = {j1}
  Submitted = {j1}
  Handlers = {h1, h2}
  Calls = {c1, c2}
  NoJob = NoJob
  NoCall = NoCall
  Backings = {"memory", "dict"}
  JobTypes = {"single", "automation"}
  MaxRetries = 1
  MaxConcurrent = 1
  MaxRunsPerDay = 2
INVARIANTS TypeOK ErrorFieldsMatch OneCallPerJob Settled
PROPERTIES EndsOnce JobsComeToRest
\* job ids run out: once the last record is deleted nothing is left to do
CHECK_DEADLOCK FALSE
