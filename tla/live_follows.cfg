SPECIFICATION LiveSpec
CONSTANTS
    None = None
    Contracts <- FourContracts
    MaxHeight = 3
    MaxForks = 1
    MaxLogs = 1
    Contents <- TwoPrint
    MaxDepth = 1
    PageLimit = 1
    Hidden <- NothingHidden
    TipReads <- FullTip
    StartBlock <- FromGenesis
    EndBlock <- NoEnd
    MaxCatchUpPages = 2
    Finality = 1
    BatchSize = 1
    MinePhases <- BetweenPasses
    ReorgPhases <- BetweenPasses
    StopPhases <- Never
    MaxStops = 0
    MaxBlocksPerFetch = 2
    HeadLag = 1
    StaleHeads = FALSE
INVARIANTS
    TipIsHandled
    StoredBelowNextBlock
PROPERTIES
    CanonicalNeverReplayed
    ImplementsProjection
