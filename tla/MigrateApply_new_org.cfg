SPECIFICATION Spec
CONSTANTS
    v = v
    c = c
    x = x
    s = s
    Finance = Finance
    HR = HR
    Views <- MCViews
    Content <- MCContent
    LateObjects <- MCLate
    OnModel <- MCOnModel
    Uses <- MCUses
    NameOf <- MCNames
    FromEnd <- MCFromEnd
    Groups <- MCGroups
    GrantsOf <- MCGrants
    SameOrg = FALSE
    MayBeUnread = {}
    MayBeBlank = {v, s}
    StackMayBeBlank = TRUE
    FreshReruns = TRUE
    ResumeUndone = FALSE
    MaxRuns = 3
INVARIANTS
    TypeOK
    CompleteMeansMigrated
    RolledBackMeansGone
    NoStrandedCopy
    NoForeignGrant
PROPERTIES
    KeepsPromise
CHECK_DEADLOCK FALSE
