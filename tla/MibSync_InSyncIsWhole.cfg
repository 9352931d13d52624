SPECIFICATION Spec
CONSTANTS
    MdsMax = 2
    AuditDelay = 1
    ResyncDelay = 2
    MaxRestarts = 0
    MaxChanges = 1
INVARIANT InSyncIsWhole
CHECK_DEADLOCK FALSE
