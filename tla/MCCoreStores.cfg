SPECIFICATION FairSpec
CONSTANTS
    a = a
    b = b
    c = c
    Instances = {a, b, c}
    None = None
    voltha_number <- MCNumber
    timestamp <- MCTimestamp
    MaxTerms = 1
    MaxFaults = 0
INVARIANTS MappingInjective StoreIsMapped
PROPERTY MemberServed
CHECK_DEADLOCK FALSE
