SPECIFICATION Spec
CONSTANTS
    None = None
    Contracts <- TwoContracts
    MaxHeight = 3
    MaxForks = 1
    MaxLogs = 1
    Contents <- AnyContents
    MaxDepth = 1
    PageLimit = 1
    Hidden <- NothingHidden
    TipReads <- FullTip
    StartBlock <- FromGenesis
    EndBlock <- NoEnd
    MaxCatchUpPages = 2
    Finality = 1
    BatchSize = 1
    MinePhases <- BetweenPasses
    ReorgPhases <- BetweenPasses
    StopPhases <- Always
    MaxStops = 1
INVARIANTS
    HandledThroughCheckpoint
    NothingHandledTwice
    StoredIsCanonical
    FinalizedStands
    NoReorgError
