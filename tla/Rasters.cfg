CONSTANTS
  MIN_BLOCK = 4
  MAX_BLOCK = 16
  NoFile = NoFile
  Nothing = Nothing
  NoData = NoData
  Threads = {t1, t2}
  RasterJobs <- MCRasterJobs
  Blocks = 4
  n_threads = 2
  Bytes = 2
  Budget = 3
SPECIFICATION Spec
INVARIANTS RastersAreExact PixelsLand ExecutorHolds
CHECK_DEADLOCK FALSE
