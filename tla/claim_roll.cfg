SPECIFICATION Spec
CONSTANTS
    Qty = 2
    MaxRetries = 2
    Kinds = {"roll"}
    FaultSets = {{}}
INVARIANTS FailedRollHolds
CHECK_DEADLOCK FALSE
