SPECIFICATION Spec
CONSTANTS
    acme = acme
    beta = beta
    a1 = a1
    a2 = a2
    b = b
    Analyst = Analyst
    Sales = Sales
    ann = ann
    bob = bob
    Tenants = {acme}
    Orgs = {a1, a2}
    Primary = Primary
    GroupNames = {Sales}
    Users = {ann}
    SpecOf <- MCSameGroupName
    Others = {}
    RowsNameOrgs = TRUE
    MaxFaults = 1
    MaxChanges <- MCChanges
INVARIANTS
    AppliedMeansComplete
CHECK_DEADLOCK FALSE
