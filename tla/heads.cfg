SPECIFICATION FairHeadsSpec
CONSTANTS
    Missing = Missing
    MaxFailures = 2
    MinSpan = 2
    Retries = 1
    LimitRetries = 1
    Faults = {"limited", "transient", "fatal"}
    Transport = "websocket"
    RetryLimit = 2
    Interval = 1
    Stall = 2
    MaxBehind = 2
    MaxFrames = 2
INVARIANTS
    HeadsTypeOK
    AttemptsBounded
    NoHeadMissed
    NewestIsTaken
    FallbackIsEarned
    EndsOnlyAfterSpan
    StallsReportedOnce
PROPERTIES
    NeverDeaf
CHECK_DEADLOCK FALSE
