SPECIFICATION FairSpec
CONSTANTS
  p1 = p1
  p2 = p2
  k1 = k1
  null = null
  Jobs = {p1, p2}
  Keys = {k1, null}
  NullKey = null
  Frame <- TwoFrames
  Dedupe = {p1}
  Impatient = {p1}
  BatchSize = 2
  ChannelCap = 1
  StoreFaults = TRUE
  MaxRestarts = 1
CHECK_DEADLOCK FALSE
INVARIANTS CompletedIsLoaded RowsReported HeardIsDurable CancelStopsWithinABatch
PROPERTIES OutcomeIsFinal PipelineEnds
