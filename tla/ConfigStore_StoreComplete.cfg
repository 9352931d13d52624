CONSTANTS
    Keys = {d1, d2}
    Values = {e, f}
    MaxOps = 5
    MaxCrashes = 2
SPECIFICATION Spec
CHECK_DEADLOCK FALSE
INVARIANT StoreComplete
