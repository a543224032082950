SPECIFICATION Spec
CONSTANTS
    m = m
    a = a
    v = v
    b = b
    k = k
    Source = m
    Fixes = {a, v}
    Deletes = {b}
    Sets = {k}
    InUseBy <- MCInUseBy
    BuiltOn <- MCBuiltOn
    FixRank <- MCFixRank
    DeleteRank <- MCDeleteRank
    Unstamped = {v}
    Edited = {a}
    MaxRuns = 1
PROPERTIES
    NoDanglingConsumer
CHECK_DEADLOCK FALSE
