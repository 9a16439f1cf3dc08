SPECIFICATION Spec
CONSTANTS
  Jobs = {j1}
  Runs = {r1, r2}
  Discards = {}
  Deletable = {}
  Touched = {}
  MaxConcurrentJobs = 2
  SerialClient = FALSE
  StoreFaults = FALSE
  MaxRestarts = 0
  DurableFiles = TRUE
  NoRun = NoRun
  NoJob = NoJob
  Uploaded = Uploaded
  Erased = Erased

CHECK_DEADLOCK FALSE
INVARIANT AtMostOneRunner
