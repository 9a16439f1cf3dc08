SPECIFICATION Spec
CONSTANTS
    Evals = {"e1", "e2"}
    Graphs <- SharedGraphs
    Bands <- MCBands
    BandOrder <- MCBandOrder
    Resolution <- MCResolution
    AoiGrid <- MCAoiGrid
    SceneLists <- OneScene
    MaxScenes = 1
    MaxDownloads = 2
    MaxActive = 2
    Faults = FALSE
    Drops = FALSE
INVARIANT ResultsAreMeant
CHECK_DEADLOCK FALSE
