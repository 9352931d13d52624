SPECIFICATION FairSpec
CONSTANTS
    a = a
    b = b
    c = c
    Instances = {a, b, c}
    None = None
    voltha_number <- MCNumber
    timestamp <- MCTimestamp
    MaxTerms = 1
    MaxFaults = 0
PROPERTY EveryMemberServed
CHECK_DEADLOCK FALSE
