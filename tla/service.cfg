SPECIFICATION FairServiceSpec
CONSTANTS
    None = None
    FirstCall = FirstCall
    SecondCall = SecondCall
    Calls <- TwoCalls
    MaxHeight = 1
    FirstTip = 1
    BatchSize = 2
    EndHeight = 1
    Databases <- BothDatabases
    MaxActive = 2
INVARIANTS
    ServiceTypeOK
    PhaseMatchesCalls
    ReadyAfterPass
    AppliedOnce
    EventsCounted
PROPERTIES
    CallsSettle
