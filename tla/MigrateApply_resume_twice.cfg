SPECIFICATION Spec
CONSTANTS
    v = v
    c = c
    x = x
    s = s
    Finance = Finance
    HR = HR
    Views <- MCViews
    Content <- MCContent
    LateObjects = {}
    OnModel <- MCOnModel
    Uses <- MCUses
    NameOf <- MCNames
    FromEnd <- MCFromEnd
    Groups <- MCGroups
    GrantsOf <- MCGrants
    SameOrg = FALSE
    MayBeUnread = {}
    MayBeBlank = {}
    StackMayBeBlank = FALSE
    FreshReruns = FALSE
    ResumeUndone = FALSE
    MaxRuns = 3
INVARIANTS
    NoSecondCopy
CHECK_DEADLOCK FALSE
