\* the in-memory store, a job and its retry, with fine-tunes to approve
SPECIFICATION Spec
CONSTANTS
  Jobs = {j1, j2}
  Submitted = {j1}
  Handlers = {h1, h2}
  Calls = {c1, c2}
  NoJob = NoJob
  NoCall = NoCall
  Backings = {"memory"}
  JobTypes = {"single", "finetune"}
  MaxRetries = 0
  MaxConcurrent = 1
  MaxRunsPerDay = 2
SYMMETRY Interchangeable
VIEW Unaudited
INVARIANTS TrainNeedsApproval
PROPERTIES CancelStopsOwnJob JobsKeepPromise
\* job ids run out: once the last record is deleted nothing is left to do
CHECK_DEADLOCK FALSE
