SPECIFICATION Spec
CONSTANTS
    NoKey = NoKey
    d1 = d1
    d2 = d2
    u1 = u1
    Candidates = {"curate"}
    Scoped = {}
    External = {"curate"}
    CanYield = {}
    Tickets = {d1, d2}
    Users = {}
    Scopes <- BothScopes
    Wide = {"workspace-write"}
    Limit = 2
    Faults = {"call", "cancel"}
    Once = {}
    MaxRetries = 1
    MaxJobs = 1
INVARIANTS UnknownKeepsCredit
SYMMETRY Symmetric
