SPECIFICATION Spec
CONSTANTS
    m = m
    v = v
    w = w
    a = a
    k = k
    Objects <- MCTwo
    Source = m
    Owners = {m}
    Unlisted = {}
    LateObjects = {}
    Edited = {}
    Reads <- MCTwoReads
    Rank <- MCTwoRank
    MaxRollbacks = 3
INVARIANTS
    BindsToTheRestored
CHECK_DEADLOCK FALSE
