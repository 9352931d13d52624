SPECIFICATION FairSpec
CONSTANTS
    MaxRestarts = 3
    MaxChanges = 6
INVARIANTS NoCallLost IdleKnowsEntities
PROPERTY SyncIsSeen
CHECK_DEADLOCK FALSE
