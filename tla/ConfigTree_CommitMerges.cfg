SPECIFICATION Spec
CONSTANTS
    a = a
    b = b
    c = c
    v1 = v1
    v2 = v2
    t1 = t1
    Keys = {a, b, c}
    Values = {v1}
    Txids = {t1}
    None = None
    Initial <- TwoChildren
    Default = v1
    MaxOps = 7
PROPERTY CommitMerges
CHECK_DEADLOCK FALSE
