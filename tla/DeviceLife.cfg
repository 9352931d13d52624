CONSTANTS
    olt = olt
    Onus = {u1, u2}
    MaxRequests = 6
    MaxFailures = 1
    MaxCrashes = 1
SPECIFICATION Spec
CHECK_DEADLOCK FALSE
INVARIANTS
    LastDataAgrees
    StatusAgrees
    ServiceAgrees
PROPERTIES
    DeletedStaysDeleted
