SPECIFICATION FairSpec
CONSTANTS
  Jobs = {j1}
  Runs = {r1, r2}
  Discards = {}
  Deletable = {j1}
  Touched = {}
  MaxConcurrentJobs = 2
  SerialClient = FALSE
  StoreFaults = FALSE
  MaxRestarts = 1
  DurableFiles = TRUE
  NoRun = NoRun
  NoJob = NoJob
  Uploaded = Uploaded
  Erased = Erased

CHECK_DEADLOCK FALSE
INVARIANTS ActiveHasDriver
PROPERTY ActiveSettles
