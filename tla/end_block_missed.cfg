SPECIFICATION LiveSpec
CONSTANTS
    None = None
    Contracts <- ThreeContracts
    MaxHeight = 3
    MaxForks = 0
    MaxLogs = 1
    Contents <- AllOrNothing
    MaxDepth = 1
    PageLimit = 1
    Hidden <- NothingHidden
    TipReads <- FullTip
    StartBlock <- FromGenesis
    EndBlock <- LastEnds
    MaxCatchUpPages = 2
    Finality = 1
    BatchSize = 1
    MinePhases <- BetweenPasses
    ReorgPhases <- Never
    StopPhases <- Always
    MaxStops = 1
    MaxBlocksPerFetch = 2
    HeadLag = 0
    StaleHeads = FALSE
INVARIANTS
    HandledThroughCheckpoint
