SPECIFICATION FairSpec
CONSTANTS
    acme = acme
    beta = beta
    a1 = a1
    a2 = a2
    b = b
    Analyst = Analyst
    Sales = Sales
    ann = ann
    bob = bob
    Tenants = {acme, beta}
    Orgs = {a1, a2, b}
    Primary = Primary
    GroupNames = {Analyst, Sales}
    Users = {ann, bob}
    SpecOf <- MCTwoTenants
    Others <- MCOthers
    RowsNameOrgs = TRUE
    MaxFaults = 1
    MaxChanges <- MCChanges
INVARIANTS
    TypeOK
    AppliedMeansComplete
    TornDownMeansGone
PROPERTIES
    TakesOnlyItsOwn
    NoUserIsStripped
    ReRunFinishes
CHECK_DEADLOCK FALSE
