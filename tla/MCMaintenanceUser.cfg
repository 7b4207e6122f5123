SPECIFICATION FairSpec
CONSTANTS
    NoKey = NoKey
    d1 = d1
    d2 = d2
    u1 = u1
    Candidates = {"index", "build"}
    Scoped = {"index", "build"}
    External = {}
    CanYield = {"index"}
    Tickets = {d1, d2}
    Users <- OneUser
    Scopes <- BothScopes
    Wide = {"workspace-write"}
    Limit = 1
    Faults = {"call", "job", "settle"}
    Once = {}
    MaxRetries = 0
    MaxJobs = 1
INVARIANTS TypeOK BudgetHolds AdmittedApart WorkApart
PROPERTIES UserGoesFirst UserIsServed
