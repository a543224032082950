SPECIFICATION Spec
CONSTANTS
    m = m
    a = a
    v = v
    b = b
    k = k
    Source = m
    Fixes = {a, v}
    Deletes = {b}
    Sets = {k}
    InUseBy <- MCInUseBy
    BuiltOn <- MCBuiltOn
    FixRank <- MCFixRank
    DeleteRank <- MCDeleteRank
    Unstamped = {v}
    Edited = {m, a, b}
    MaxRuns = 2
INVARIANTS
    TypeOK
    ChangedIsBackedUp
    ChangedOnce
    SucceededIsTrue
    DeletedIsGone
    QuietRunSucceeds
    QuietRollbackRestores
PROPERTIES
    SetsGuarded
CHECK_DEADLOCK FALSE
