SPECIFICATION LiveSpec
CONSTANTS
    None = None
    Contracts <- OneContract
    MaxHeight = 3
    MaxForks = 1
    MaxLogs = 1
    Contents <- AnyContents
    MaxDepth = 1
    PageLimit = 1
    Hidden <- NothingHidden
    TipReads <- AnyTip
    StartBlock <- FromGenesis
    EndBlock <- NoEnd
    MaxCatchUpPages = 2
    Finality = 1
    BatchSize = 1
    MinePhases <- Always
    ReorgPhases <- Always
    StopPhases <- Always
    MaxStops = 2
    MaxBlocksPerFetch = 2
    HeadLag = 1
    StaleHeads = TRUE
INVARIANTS
    LiveTypeOK
    FinalizedBelowCheckpoint
PROPERTIES
    FinalizedMonotone
    FinalNeverReplayed
