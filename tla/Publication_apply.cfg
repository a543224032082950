SPECIFICATION Spec
CONSTANTS
    t = t
    u = u
    f = f
    g = g
    h = h
    sales = sales
    ref = ref
    mine = mine
    org1 = org1
    None = None
    Owner = primary
    Targets = {t, u}
    Fields = {f, g, h}
    Values = {sales, ref, mine}
    Orgs = {org1}
    Unreadable = {g}
    Unfound = {u}
    FieldsOf <- MCFieldsOf
    Static <- MCOneEach
    Given <- MCGiven
    Sources = {"given"}
    RollsBackFirst = TRUE
    MaxNames = 3
    OthersNames = {1}
    MaxApplies = 2
    MaxRollbacks = 2
INVARIANTS
    TypeOK
    OwnerKeepsItsData
    PublishedIsCovered
    RollbackRestores
CHECK_DEADLOCK FALSE
