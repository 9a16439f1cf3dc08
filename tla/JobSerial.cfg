SPECIFICATION Spec
CONSTANTS
  Jobs = {j1}
  Runs = {r1, r2, r3}
  Discards = {}
  Deletable = {j1}
  Touched = {j1}
  MaxConcurrentJobs = 2
  SerialClient = TRUE
  StoreFaults = FALSE
  MaxRestarts = 1
  DurableFiles = TRUE
  NoRun = NoRun
  NoJob = NoJob
  Uploaded = Uploaded
  Erased = Erased
SYMMETRY Interchangeable
CHECK_DEADLOCK FALSE
INVARIANTS FinishedIsAnnounced
PROPERTIES SettledIsStable ImplementsLifecycle
