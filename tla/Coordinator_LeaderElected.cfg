SPECIFICATION FairSpec
CONSTANTS
    Instances = {i1, i2}
    None = None
    MaxFaults = 1
PROPERTY LeaderElected
CHECK_DEADLOCK FALSE
