CONSTANTS
    Workflows = {w1}
    MaxItems = 3
    Faults = {"dispatch_error", "write_error"}
SPECIFICATION FairSpec
INVARIANTS
    ItemsAccountedFor
    CountsMatchFailureRows
    UnfinishedRowIsOwned
PROPERTIES
    RowOnlyMovesForward
    ImplementsLifecycle
