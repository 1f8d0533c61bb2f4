SPECIFICATION Spec
CONSTANTS
    Qty = 2
    MaxRetries = 2
    Kinds = {"enter", "close", "roll"}
    FaultSets = {{}, {"refuse", "lost", "rest", "combo"}}
INVARIANTS FilledIsWhole StaysOnItsSide PartialIsReversedOrTold
PROPERTIES ImplementsContract Returns
CHECK_DEADLOCK FALSE
