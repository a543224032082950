SPECIFICATION Spec
CONSTANTS
    t = t
    u = u
    f = f
    g = g
    h = h
    sales = sales
    ref = ref
    mine = mine
    org1 = org1
    None = None
    Owner = primary
    Targets = {t}
    Fields = {f, g}
    Values = {sales, ref, mine}
    Orgs = {org1}
    Unreadable = {}
    Unfound = {}
    FieldsOf <- MCFieldsOf
    Static <- MCStatic
    Given <- MCGiven
    Sources = {"given", "existing"}
    RollsBackFirst = FALSE
    MaxNames = 3
    OthersNames = {}
    MaxApplies = 2
    MaxRollbacks = 0
INVARIANTS
    OwnerKeepsItsData
CHECK_DEADLOCK FALSE
