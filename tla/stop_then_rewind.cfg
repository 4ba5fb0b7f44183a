SPECIFICATION Spec
CONSTANTS
    None = None
    Contracts <- TwoContracts
    MaxHeight = 3
    MaxForks = 0
    MaxLogs = 1
    Contents <- AnyContents
    MaxDepth = 2
    PageLimit = 1
    Hidden <- NothingHidden
    TipReads <- FullTip
    StartBlock <- FromGenesis
    EndBlock <- NoEnd
    MaxCatchUpPages = 2
    Finality = 2
    BatchSize = 1
    MinePhases <- Always
    ReorgPhases <- Never
    StopPhases <- Always
    MaxStops = 1
INVARIANTS
    SyncedMeansStored
