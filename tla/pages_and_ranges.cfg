SPECIFICATION ProgressSpec
CONSTANTS
    None = None
    Contracts <- TwoContracts
    MaxHeight = 3
    MaxForks = 0
    MaxLogs = 2
    Contents <- AnyContents
    MaxDepth = 1
    PageLimit = 2
    Hidden <- NothingHidden
    TipReads <- FullTip
    StartBlock <- Starts
    EndBlock <- Ends
    MaxCatchUpPages = 2
    Finality = 1
    BatchSize = 2
    MinePhases <- BetweenAndWhileSyncing
    ReorgPhases <- Never
    StopPhases <- Never
    MaxStops = 0
INVARIANTS
    StoredThroughTip
    ReportedIsStored
    TotalIsStored
    HandledThroughCheckpoint
