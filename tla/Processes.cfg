CONSTANTS
  Fn <- MCFn
  TOLERANCE <- MCTolerance
  MAX_SUBGRAPH_DEPTH = 4
  MAX_ARRAY_LEN = 5
  Null = Null
  Text = Text
  Absent = Absent
  Lost = Lost
  Times = {1, 2}
  Boxes <- MCBoxes
  BandOrder <- MCBandOrder
  BandSets <- MCBandSets
  NameLists <- MCNameLists
  MaxSteps = 3
SPECIFICATION Spec
INVARIANTS ProcessesAreExact GraphsAreSound CubesStayTrue
CHECK_DEADLOCK FALSE
