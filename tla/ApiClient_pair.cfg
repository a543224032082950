SPECIFICATION FairSpec
CONSTANTS
    Procs = {p1, p2}
    Idempotent = {p2}
    RetryMax = 1
    MaxRevocations = 1
    MaxKills = 1
INVARIANTS
    TypeOK
    NoDuplicateCreate
    DefiniteFailureHasNoEffect
    SecondRejectionIsNews
PROPERTIES
    EveryCallEnds
CHECK_DEADLOCK FALSE
