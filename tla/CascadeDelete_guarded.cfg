SPECIFICATION Spec
CONSTANTS
    m = m
    v = v
    w = w
    a = a
    k = k
    Objects <- MCObjects
    Source = m
    Owners <- MCOwners
    Unlisted = {k}
    LateObjects = {a, k}
    Edited = {w}
    Reads <- MCReads
    Rank <- MCRank
    MaxRollbacks = 2
INVARIANTS
    TypeOK
    RemovedIsBackedUp
    AppliedIsTrue
    NotAppliedIsFinal
    NoTwin
    BindsToTheRestored
CHECK_DEADLOCK FALSE
