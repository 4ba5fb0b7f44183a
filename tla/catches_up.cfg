SPECIFICATION FairLiveSpec
CONSTANTS
    None = None
    Contracts <- TwoContracts
    MaxHeight = 3
    MaxForks = 1
    MaxLogs = 1
    Contents <- AnyContents
    MaxDepth = 1
    PageLimit = 1
    Hidden <- NothingHidden
    TipReads <- FullTip
    StartBlock <- FromGenesis
    EndBlock <- NoEnd
    MaxCatchUpPages = 2
    Finality = 1
    BatchSize = 1
    MinePhases <- Always
    ReorgPhases <- BetweenPasses
    StopPhases <- Never
    MaxStops = 0
    MaxBlocksPerFetch = 2
    HeadLag = 0
    StaleHeads = FALSE
PROPERTIES
    EventuallyCaughtUp
