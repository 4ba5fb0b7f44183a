SPECIFICATION DefinitionsSpec
CONSTANTS
    None = None
    Latest = Latest
    Contracts = {c1, c2}
    Starts = {0, 3}
    Ends = {None, 2}
    MaxHeight = 3
SYMMETRY AnyOrder
INVARIANTS
    DefinitionsTypeOK
    NoEventUnindexed
    SavedProgressHolds
    PassIsComplete
CHECK_DEADLOCK FALSE
