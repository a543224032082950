SPECIFICATION Spec
CONSTANTS
    v = v
    c = c
    x = x
    s = s
    Finance = Finance
    HR = HR
    Views <- MCViews
    Content <- MCContent
    LateObjects = {}
    OnModel <- MCOnModel
    Uses <- MCUses
    NameOf <- MCNames
    FromEnd <- MCFromEnd
    Groups <- MCGroups
    GrantsOf <- MCGrants
    SameOrg = TRUE
    MayBeUnread = {}
    MayBeBlank = {x, s}
    StackMayBeBlank = FALSE
    FreshReruns = TRUE
    ResumeUndone = FALSE
    MaxRuns = 5
INVARIANTS
    OriginalsAreBackedUp
    OriginalsSurvive
PROPERTIES
    KeepsPromise
CHECK_DEADLOCK FALSE
