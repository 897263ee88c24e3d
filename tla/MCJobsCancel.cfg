\* a job cancelled before its worker starts
SPECIFICATION Spec
CONSTANTS
  Jobs = {j1}
  Submitted = {j1}
  Handlers = {h1, h2}
  Calls = {c1, c2}
  NoJob = NoJob
  NoCall = NoCall
  Backings = {"memory"}
  JobTypes = {"single"}
  MaxRetries = 1
  MaxConcurrent = 1
  MaxRunsPerDay = 2
PROPERTIES RunnersCheckCancelled
\* job ids run out: once the last record is deleted nothing is left to do
CHECK_DEADLOCK FALSE
