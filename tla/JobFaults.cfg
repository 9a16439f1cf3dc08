SPECIFICATION FairSpec
CONSTANTS
  Jobs = {j1}
  Runs = {r1, r2}
  Discards = {d1}
  Deletable = {j1}
  Touched = {j1}
  MaxConcurrentJobs = 1
  SerialClient = FALSE
  StoreFaults = TRUE
  MaxRestarts = 0
  DurableFiles = TRUE
  NoRun = NoRun
  NoJob = NoJob
  Uploaded = Uploaded
  Erased = Erased
CHECK_DEADLOCK FALSE
INVARIANTS CapacityHolds FinishedIsServable
PROPERTIES DeletedForever AcceptedRunEnds
