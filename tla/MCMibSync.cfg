SPECIFICATION FairSpec
CONSTANTS
    MdsMax = 2
    AuditDelay = 1
    ResyncDelay = 2
    MaxRestarts = 2
    MaxChanges = 1
INVARIANTS
    NotStranded
    CounterPersisted
PROPERTIES
    FirstChangeIsSync
    MismatchNoticed
CHECK_DEADLOCK FALSE
