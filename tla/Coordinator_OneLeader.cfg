SPECIFICATION Spec
CONSTANTS
    Instances = {i1, i2}
    None = None
    MaxFaults = 1
INVARIANT OneLeader
CHECK_DEADLOCK FALSE
