CONSTANTS
    Statements = 3
    Ignored <- MCIgnored
    MaxSaves = 3
    MaxQueries = 2
    MaxLosses = 2
SPECIFICATION Spec
INVARIANTS
    WritesTogether
    FailedLeavesNothing
    SavedIsStored
PROPERTIES
    QueriesMade
CHECK_DEADLOCK FALSE
