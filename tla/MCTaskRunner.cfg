SPECIFICATION FairSpec
CONSTANTS
    upload = upload
    mds = mds
    resync = resync
    get = get
    Tasks <- MCTasks
    Exclusive <- MCExclusive
    Priority <- MCPriority
INVARIANTS
    ExclusiveRunsAlone
    StartAssertion
    NoLostWakeup
    OnlyRunningTasksBegin
PROPERTIES
    PendingCompletes
