SPECIFICATION DefinitionsSpec
CONSTANTS
    None = None
    Latest = Latest
    Contracts = {c1, c2}
    Starts = {0}
    Ends = {None, Latest}
    MaxHeight = 3
SYMMETRY AnyOrder
INVARIANTS
    PassIsComplete
CHECK_DEADLOCK FALSE
