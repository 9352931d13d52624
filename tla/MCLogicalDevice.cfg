CONSTANTS
    Unis <- MCUnis
    FlowMods <- MCFlowMods
    Provisioned <- MCProvisioned
    GroupIds = {1}
    BucketLists <- MCBucketLists
    MaxSteps = 3
SPECIFICATION Spec
CHECK_DEADLOCK FALSE
INVARIANTS
    SubscriberServed
    Isolated
    MulticastServed
    NothingMissing
