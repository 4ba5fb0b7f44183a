SPECIFICATION Spec
CONSTANTS
    None = None
    Contracts <- TwoContracts
    MaxHeight = 3
    MaxForks = 2
    MaxLogs = 1
    Contents <- AnyContents
    MaxDepth = 2
    PageLimit = 1
    Hidden <- NothingHidden
    TipReads <- FullTip
    StartBlock <- FromGenesis
    EndBlock <- NoEnd
    MaxCatchUpPages = 2
    Finality = 1
    BatchSize = 1
    MinePhases <- BetweenAndWhileSyncing
    ReorgPhases <- BetweenPasses
    StopPhases <- Never
    MaxStops = 0
INVARIANTS
    SyncedMeansStored
    OfferedHeightsAreStored
PROPERTIES
    ImplementsProjection
