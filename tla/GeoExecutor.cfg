SPECIFICATION Spec
CONSTANTS
    Evals = {"e1", "e2"}
    Graphs <- MCGraphs
    Bands <- MCBands
    BandOrder <- MCBandOrder
    Resolution <- MCResolution
    AoiGrid <- MCAoiGrid
    SceneLists <- MCScenes
    MaxScenes = 2
    MaxDownloads = 2
    MaxActive = 2
    Faults = TRUE
    Drops = TRUE
INVARIANT DownloadsBounded
INVARIANT CubesAreMeant
INVARIANT UndisturbedIsMeant
PROPERTY EvaluationsEnd
CHECK_DEADLOCK FALSE
