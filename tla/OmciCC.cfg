SPECIFICATION Spec
CONSTANTS
    MaxSends = 3
    MaxTid = 2
    AlarmLimit = 1
    MaxOnu = 2
    MaxRestarts = 1
INVARIANTS
    RequestsExact
    OwnAnswer
    ConnectivityTracked
PROPERTIES
    AutonomousAnnounced
    RequestSettles
CHECK_DEADLOCK FALSE
